---- MODULE Spec2Model ----
(***************************************************************************)
(* TailUI: a desktop control surface for the tailscale CLI.                *)
(*                                                                         *)
(*   src/tailscale_client.py  TailscaleClient.status(): parses the JSON    *)
(*                            status into a Status snapshot                *)
(*   src/gui.py               MainWindow: the worker dispatcher, the       *)
(*                            connect / disconnect transition with its     *)
(*                            convergence poller, the exit-node controls   *)
(*                                                                         *)
(* Conventions.                                                            *)
(*   - Python strings whose characters the code inspects (the backend      *)
(*     state, which is lower-cased) are sequences of one-character         *)
(*     strings.  Identifiers that are only compared or stored (names,      *)
(*     addresses, ids) are TLA+ strings; the source's messages are kept    *)
(*     in ASCII transliteration.                                           *)
(*   - Optional[str] is a string or None; "" and None are both falsy, as   *)
(*     in Python.  Optional[bool] is <<>> (None) or <<b>>.                 *)
(*   - time.time() is read through clocks: since_poll_started is           *)
(*     time.time() - _poll_started_at, since_down_started is               *)
(*     time.time() - _down_started_at, both in milliseconds.  A clock      *)
(*     stops counting at ClockCap, which is above every limit the code     *)
(*     compares it with.                                                   *)
(***************************************************************************)
EXTENDS Integers, Sequences, FiniteSets, TLC

VARIABLES
  \* ---- MainWindow fields (src/gui.py __init__) ----
  client,              \* self.client is not None
  busy_toggle,         \* self._busy_toggle
  exit_busy,           \* self._exit_busy
  public_ip_pending,   \* self._public_ip_pending
  poll_timer,          \* self._poll_timer: None or the id of a QTimer
  poll_target,         \* self._poll_target: <<>> or <<b>>
  since_poll_started,  \* time.time() - self._poll_started_at   (ms)
  since_down_started,  \* time.time() - self._down_started_at   (ms)
  exit_active_value,   \* self._exit_active_value
  exit_has_nodes,      \* self._exit_has_nodes
  exit_entries,        \* keys of self._exit_entries (command values)
  combo_items,         \* exit_node_combo items: their data, in order
  exit_controls,       \* enabled flags of the checkbox, the combo and Apply
  exit_alias_map,      \* self._exit_alias_map
  combo_index,         \* exit_node_combo.currentIndex(), 0-based, -1 = none
  exit_checked,        \* exit_enable_checkbox.isChecked()
  toggle,              \* toggle_button: [text, enabled, connected]
  tray_menu,           \* enabled flags of the tray's connect and disconnect
  \* ---- Qt objects ----
  timers,              \* running poll QTimers: id -> ms left until timeout
  workers,             \* Worker objects of _submit_worker: id -> record
  signals,             \* emitted, not yet delivered Worker signals
  interaction,         \* self._interaction_timer, self._last_refresh_ts
  boxes,               \* open QMessageBox.warning boxes, the newest last
  \* ---- observation ----
  hist,                \* what happened since the transition / session began
  last,                \* what the step just taken did
  \* ---- pure-function harness ----
  raw,                 \* JSON document handed to TailscaleClient.status()
  dev,                 \* Device handed to the identity resolver
  out,                 \* result of the function applied last
  \* ---- PublicIPFetcher (src/ip_info.py) ----
  fetcher              \* _cache, _cache_time, _lock, the clock, the callers

vars == << client, busy_toggle, exit_busy, public_ip_pending, poll_timer,
           poll_target, since_poll_started, since_down_started,
           exit_active_value, exit_has_nodes, exit_entries,
           exit_alias_map, combo_items, combo_index, exit_checked,
           exit_controls, toggle, tray_menu, timers, workers, signals,
           interaction, boxes, hist, last, raw, dev, out, fetcher >>

guiVars == << client, busy_toggle, exit_busy, public_ip_pending, poll_timer,
              poll_target, since_poll_started, since_down_started,
              exit_active_value, exit_has_nodes, exit_entries,
              exit_alias_map, combo_items, combo_index, exit_checked,
              exit_controls, toggle, tray_menu, timers, workers, signals,
              interaction, boxes, hist, last >>

-----------------------------------------------------------------------------
(* Python values *)

None == "None"

\* bool(s) of an Optional[str]
Truthy(s) == s # None /\ s # ""

\* Op(v) with v evaluated first and once, as Python evaluates the argument
\* of a call
Call(Op(_), v) == CHOOSE r \in { Op(x) : x \in { v } } : TRUE

Min(a, b) == IF a <= b THEN a ELSE b
Max(a, b) == IF a >= b THEN a ELSE b

Range(s) == { s[i] : i \in 1..Len(s) }

UpperCase == << "A","B","C","D","E","F","G","H","I","J","K","L","M",
                "N","O","P","Q","R","S","T","U","V","W","X","Y","Z" >>
LowerCase == << "a","b","c","d","e","f","g","h","i","j","k","l","m",
                "n","o","p","q","r","s","t","u","v","w","x","y","z" >>

LowerChar(c) ==
  IF \E i \in 1..Len(UpperCase) : UpperCase[i] = c
  THEN LowerCase[CHOOSE i \in 1..Len(UpperCase) : UpperCase[i] = c]
  ELSE c

\* str.lower()
Lower(s) == [ i \in 1..Len(s) |-> LowerChar(s[i]) ]

\* the literal 'running'
RunningLabel == << "r","u","n","n","i","n","g" >>

-----------------------------------------------------------------------------
(* src/tailscale_client.py *)

\* A peer object of the status JSON.  A key that is absent is None (for a
\* string), << >> (for the address list) or FALSE (for a flag); Hostinfo is
\* the record of its Hostname and DNSName keys.  TailscaleIPs is a JSON list.
RawPeer(id, host, dns, ips, opt, isExit) ==
  [ ID |-> id, Hostinfo |-> [ Hostname |-> host, DNSName |-> None ],
    DNSName |-> dns, TailscaleIPs |-> ips,
    ExitNodeOption |-> opt, ExitNode |-> isExit ]

\* full_name.split('.')[0] for the dotted names the model uses
ShortNames == [ n \in { "exit-host.tail.ts.net" } |-> "exit-host" ]

_extract_short_hostname(full_name) ==
  IF full_name \in DOMAIN ShortNames THEN ShortNames[full_name] ELSE full_name

\* a or b or c
Or3(a, b, c) == IF Truthy(a) THEN a ELSE IF Truthy(b) THEN b ELSE c

parse_peer(key, value) ==
  [ name        |-> _extract_short_hostname(
                      Or3(value.Hostinfo.Hostname, value.DNSName, key)),
    tailnet_ips |-> value.TailscaleIPs,
    exit_node_option |-> value.ExitNodeOption,
    is_exit_node |-> value.ExitNode,
    hostinfo    |-> value.Hostinfo,
    device_id   |-> Or3(value.ID, None, key) ]

\* if self_peer: self_device = parse_peer(self_peer.get('ID') or 'self', ...)
SelfDevices(data) ==
  IF data.Self = << >> THEN << >>
  ELSE << parse_peer(Or3(data.Self[1].ID, None, "self"), data.Self[1]) >>

\* for peer_id, peer_val in peers.items(): devices.append(parse_peer(...))
PeerDevices(data) ==
  [ i \in 1..Len(data.Peer) |-> parse_peer(data.Peer[i][1], data.Peer[i][2]) ]

\* devices_by_id.get(candidate_id): the last device stored under that id
DeviceIndexById(devices, id) ==
  IF \E i \in 1..Len(devices) : devices[i].device_id = id
  THEN CHOOSE i \in 1..Len(devices) :
         /\ devices[i].device_id = id
         /\ \A j \in 1..Len(devices) : devices[j].device_id = id => j <= i
  ELSE 0

\* (the variant C24 is distinguished from: the ids are taken whatever Active
\* says)
ActiveIdsWhateverActive(data) ==
  IF data.ExitNodeStatus = << >> THEN << >>
  ELSE IF Truthy(data.ExitNodeStatus[1].ID) THEN << data.ExitNodeStatus[1].ID >>
  ELSE << >>

\* active_ids: [] when ExitNodeStatus.Active is False, else the ids it names
\* (the model's documents name the id under the key ID)
ActiveIds(data) ==
  IF data.ExitNodeStatus = << >> THEN << >>
  ELSE LET es == data.ExitNodeStatus[1] IN
       IF es.Active = "false" THEN << >>
       ELSE IF Truthy(es.ID) THEN << es.ID >> ELSE << >>

\* index of the device named by the first candidate id that is known, else 0
ActiveByStatus(data, devices) ==
  LET ids == ActiveIds(data)
      hit == { k \in 1..Len(ids) : DeviceIndexById(devices, ids[k]) # 0 }
  IN IF hit = {} THEN 0
     ELSE DeviceIndexById(devices, ids[CHOOSE k \in hit : \A m \in hit : k <= m])

\* for device in devices: if device.is_exit_node: ... break
FirstFlagged(devices) ==
  LET hit == { i \in 1..Len(devices) : devices[i].is_exit_node }
  IN IF hit = {} THEN 0 ELSE CHOOSE i \in hit : \A m \in hit : i <= m

\* a snapshot whose connected would follow the backend state alone
\* (the variant C1 is distinguished from)
ConnectedByBackendAlone(backend_state, self_device) ==
  Lower(backend_state) = RunningLabel

\* (the variant C32 is distinguished from: the addresses alone decide)
ConnectedByAddressesAlone(backend_state, self_device) ==
  /\ self_device # << >>
  /\ Len(self_device[1].tailnet_ips) > 0

\* connected = backend_state.lower() == 'running'
\*             and bool(self_device and self_device.tailnet_ips)
ConnectedOf(backend_state, self_device) ==
  /\ Lower(backend_state) = RunningLabel
  /\ self_device # << >>
  /\ Len(self_device[1].tailnet_ips) > 0

\* TailscaleClient.status() on a JSON document that was read successfully.
\* self_device and active_exit_node are << >> (None) or << device >>.
status(data) ==
  LET parsed   == SelfDevices(data) \o PeerDevices(data)
      byStatus == ActiveByStatus(data, parsed)
      devices  == [ i \in 1..Len(parsed) |->
                      IF i = byStatus
                      THEN [ parsed[i] EXCEPT !.is_exit_node = TRUE ]
                      ELSE parsed[i] ]
      active   == IF byStatus # 0 THEN byStatus ELSE FirstFlagged(devices)
      self_device == IF data.Self = << >> THEN << >> ELSE << devices[1] >>
  IN [ backend_state    |-> data.BackendState,
       self_device      |-> self_device,
       devices          |-> devices,
       exit_nodes       |-> SelectSeq(devices, LAMBDA d : d.exit_node_option),
       connected        |-> ConnectedOf(data.BackendState, self_device),
       active_exit_node |-> IF active = 0 THEN << >> ELSE << devices[active] >> ]

-----------------------------------------------------------------------------
(* src/gui.py: Device Identity Resolver *)

\* a resolver that would try the device name before the metadata
\* (the variant C9 is distinguished from)
PreferredNameFirst(device) ==
  LET ips == device.tailnet_ips
      nonEmpty == { i \in 1..Len(ips) : Truthy(ips[i]) }
  IN IF Truthy(device.name) THEN device.name
     ELSE IF Truthy(device.hostinfo.Hostname) THEN device.hostinfo.Hostname
     ELSE IF Truthy(device.hostinfo.DNSName) THEN device.hostinfo.DNSName
     ELSE IF nonEmpty # {}
          THEN ips[CHOOSE i \in nonEmpty : \A j \in nonEmpty : i <= j]
     ELSE IF Truthy(device.device_id) THEN device.device_id
     ELSE None

\* an alias set that would leave out the DNSName metadata
\* (the variant C10 is distinguished from)
AliasesWithoutDNSName(device) ==
  IF device = << >> THEN {}
  ELSE LET d == device[1] IN
       { v \in { d.name, d.device_id, d.hostinfo.Hostname } : Truthy(v) }
       \cup { ip \in Range(d.tailnet_ips) : Truthy(ip) }

\* for key in ("Hostname", "DNSName"): value = hostinfo.get(key) ...
_preferred_exit_node_argument(device) ==
  LET ips == device.tailnet_ips
      nonEmpty == { i \in 1..Len(ips) : Truthy(ips[i]) }
  IN IF Truthy(device.hostinfo.Hostname) THEN device.hostinfo.Hostname
     ELSE IF Truthy(device.hostinfo.DNSName) THEN device.hostinfo.DNSName
     ELSE IF Truthy(device.name) THEN device.name
     ELSE IF nonEmpty # {}
          THEN ips[CHOOSE i \in nonEmpty : \A j \in nonEmpty : i <= j]
     ELSE IF Truthy(device.device_id) THEN device.device_id
     ELSE None

\* device is << >> (None) or << device >>
_exit_aliases_for_device(device) ==
  IF device = << >> THEN {}
  ELSE LET d == device[1] IN
       { v \in { d.name, d.device_id } : Truthy(v) }
       \cup { ip \in Range(d.tailnet_ips) : Truthy(ip) }
       \cup { v \in { d.hostinfo.Hostname, d.hostinfo.DNSName } : Truthy(v) }

-----------------------------------------------------------------------------
(* Inputs of the pure functions *)

\* how many addresses a device of the inputs may carry
MaxIps == 2

StrRunning   == << "R","u","n","n","i","n","g" >>
StrRUNNING   == << "R","U","N","N","I","N","G" >>
StrStopped   == << "S","t","o","p","p","e","d" >>
StrStarting  == << "S","t","a","r","t","i","n","g" >>
StrNeedsLogin == << "N","e","e","d","s","L","o","g","i","n" >>

\* every spelling of the running label among the inputs
RunningSpellings == { StrRunning, StrRUNNING, RunningLabel }

BackendStates ==
  RunningSpellings \cup { StrStopped, StrStarting, StrNeedsLogin, << >> }

AddressPool == << "100.64.0.1", "fd7a::1", "100.64.0.9" >>

AddressLists == { SubSeq(AddressPool, 1, n) : n \in 0..MaxIps }

PeerExit(isExit) ==
  << "peer1", RawPeer(None, "exit-host.tail.ts.net", None, << "100.64.0.2" >>,
                      TRUE, isExit) >>
PeerWork ==
  << "peer2", RawPeer("n2", "workstation", None, << "100.64.0.3" >>,
                      FALSE, FALSE) >>

RawInputs ==
  [ BackendState : BackendStates,
    Self : { << >> } \cup
           { << RawPeer("self-id", "myhost", None, ips, FALSE, FALSE) >> :
               ips \in AddressLists },
    Peer : { << >>, << PeerExit(FALSE), PeerWork >>, << PeerExit(TRUE), PeerWork >> },
    ExitNodeStatus : { << >>,
                       << [ Active |-> "true",  ID |-> "peer1" ] >>,
                       << [ Active |-> "false", ID |-> "peer1" ] >> } ]

IpLists ==
  { << >>, << "" >>, << "100.64.0.2" >>, << "", "100.64.0.3" >>,
    << "100.64.0.2", "fd7a::2" >> }

DeviceInputs ==
  [ name : { "", "n", "h" },
    tailnet_ips : IpLists,
    exit_node_option : { TRUE },
    is_exit_node : { FALSE },
    hostinfo : [ Hostname : { None, "", "h" }, DNSName : { None, "d" } ],
    device_id : { None, "d1" } ]

NoRaw == [ BackendState |-> << >>, Self |-> << >>, Peer |-> << >>,
           ExitNodeStatus |-> << >> ]

NoOut == [ fn |-> "none", val |-> << >> ]

-----------------------------------------------------------------------------
(* PublicIPFetcher (src/ip_info.py) *)

\* PublicIPFetcher(ttl=180), in seconds (src/gui.py:78)
TtlS == 180

\* time.time() moves in steps of ClockStepS seconds up to ClockCapS
ClockStepS == 60
ClockCapS == 240

\* threads that call get_public_ip
Callers == { 1, 2 }

\* the three endpoints, in the order of the list of _fetch
Endpoints == << "https://ipinfo.io/json", "https://ipapi.co/json",
                "https://ifconfig.co/json" >>

\* the JSON each endpoint serves when it serves one
Body(url) ==
  IF url = 1
  THEN [ ip |-> "203.0.113.10", loc |-> "52.00,21.00",
         latitude |-> None, longitude |-> None ]
  ELSE IF url = 2
  THEN [ ip |-> "198.51.100.5", loc |-> None,
         latitude |-> "50.0", longitude |-> "8.0" ]
  ELSE [ ip |-> None, loc |-> None, latitude |-> None, longitude |-> None ]

\* what requests.get does: it raises, or returns a response with a status
\* code whose json() returns the body or raises
Responses(url) ==
  { [ raises |-> TRUE, status_code |-> 0, json |-> << >> ],
    [ raises |-> FALSE, status_code |-> 200, json |-> << Body(url) >> ],
    [ raises |-> FALSE, status_code |-> 200, json |-> << >> ],
    [ raises |-> FALSE, status_code |-> 500, json |-> << Body(url) >> ] }

\* data.get('ip', '')
IpOf(data) == IF data.ip = None THEN "" ELSE data.ip

\* _parse_ipinfo keeps loc; _parse_ipapi and _parse_ifconfig join latitude
\* and longitude
Parse(url, data) ==
  [ ip |-> IpOf(data),
    loc |-> IF url = 1 THEN data.loc ELSE << data.latitude, data.longitude >>,
    raw |-> data ]

\* (the variant C26 is distinguished from: the status code is not looked at)
AttemptAnyStatus(url, r) ==
  IF r.raises \/ r.json = << >> THEN << >> ELSE << Parse(url, r.json[1]) >>

\* one round of the loop of _fetch: << info >> when it returns, << >> when
\* it goes on to the next endpoint
Attempt(url, r) ==
  IF r.raises THEN << >>
  ELSE IF r.status_code = 200
  THEN IF r.json = << >> THEN << >> ELSE << Parse(url, r.json[1]) >>
  ELSE << >>

\* (the variant C25 is distinguished from: force is not looked at)
CacheHitWhateverForce(force, cache, cache_time, now) ==
  cache # << >> /\ now - cache_time < TtlS

\* not force and self._cache and (now - self._cache_time) < self.ttl
CacheHit(force, cache, cache_time, now) ==
  ~force /\ cache # << >> /\ now - cache_time < TtlS

\* a caller outside get_public_ip
NoCall == [ pc |-> "idle", force |-> FALSE, now |-> 0, url |-> 1,
            log |-> << >>, info |-> << >> ]

\* PublicIPFetcher.__init__
NoFetcher == [ _cache |-> << >>, _cache_time |-> 0, _lock |-> 0, time |-> 0,
               calls |-> [ t \in Callers |-> NoCall ] ]

\* threading.Lock: free when no caller holds it
LockFree(f) == f._lock = 0

\* get_public_ip(force) is called: the caller waits for the lock
Enter(f, t, force) ==
  [ f EXCEPT !.calls[t] = [ NoCall EXCEPT !.pc = "lock", !.force = force ] ]

\* with self._lock:
Acquire(f, t) ==
  [ f EXCEPT !._lock = t, !.calls[t].pc = "check" ]

\* now = time.time(); the cache is what the call returns, or _fetch begins
Check(f, t) ==
  LET c == [ f.calls[t] EXCEPT !.now = f.time ]
  IN IF CacheHit(c.force, f._cache, f._cache_time, f.time)
     THEN [ f EXCEPT !.calls[t] = [ c EXCEPT !.pc = "return", !.info = f._cache ] ]
     ELSE [ f EXCEPT !.calls[t] = [ c EXCEPT !.pc = "fetch" ] ]

\* requests.get(url, ...) of the endpoint the loop is at, answered by r
Contact(f, t, r) ==
  LET c == f.calls[t]
      got == Attempt(c.url, r)
      logged == [ c EXCEPT !.log = Append(@, [ url |-> c.url, r |-> r ]) ]
  IN IF got # << >>
     THEN [ f EXCEPT !.calls[t] = [ logged EXCEPT !.pc = "store", !.info = got ] ]
     ELSE IF c.url = Len(Endpoints)
     THEN [ f EXCEPT !.calls[t] = [ logged EXCEPT !.pc = "store" ] ]
     ELSE [ f EXCEPT !.calls[t] = [ logged EXCEPT !.url = @ + 1 ] ]

\* if info: self._cache = info
StoreCache(f, t) ==
  LET c == f.calls[t]
  IN IF c.info # << >>
     THEN [ f EXCEPT !._cache = c.info, !.calls[t].pc = "stamp" ]
     ELSE [ f EXCEPT !.calls[t].pc = "return" ]

\* self._cache_time = now
StoreTime(f, t) ==
  [ f EXCEPT !._cache_time = f.calls[t].now, !.calls[t].pc = "return" ]

\* return self._cache / return info, which leaves the with block; the
\* caller is outside get_public_ip again
Return(f, t) ==
  [ f EXCEPT !._lock = 0, !.calls[t] = NoCall ]

-----------------------------------------------------------------------------
(* The pure functions, applied to an input *)

ApplyStatus ==
  /\ out.fn = "none"
  /\ out' = [ fn |-> "status", val |-> status(raw) ]
  /\ UNCHANGED << guiVars, raw, dev, fetcher >>

ApplyPreferred ==
  /\ out.fn = "none"
  /\ dev # << >>
  /\ out' = [ fn |-> "preferred", val |-> _preferred_exit_node_argument(dev[1]) ]
  /\ UNCHANGED << guiVars, raw, dev, fetcher >>

ApplyAliases ==
  /\ out.fn = "none"
  /\ out' = [ fn |-> "aliases", val |-> _exit_aliases_for_device(dev) ]
  /\ UNCHANGED << guiVars, raw, dev, fetcher >>

-----------------------------------------------------------------------------
(* src/gui.py: MainWindow.  A handler is an operator from the window's     *)
(* state w (the record Window of the variables) to the state it leaves.    *)

\* timing constants of the source, in milliseconds
PollIntervalMs      == 300
PollTimeoutMs       == 15000
DisconnectTimeoutMs == 6000
DisconnectGraceMs   == 1500

\* time passes in steps of Step ms; a clock stops counting at its cap
Step            == 300
ClockCap        == 15600
\* where only the order of events matters, time passes in steps of FarStep ms
FarStep         == 3000
\* a status fetch inside a poll tick takes up to MaxFetchSteps steps
MaxFetchSteps   == 1

NoTimer == 0

Window ==
  [ client |-> client, busy_toggle |-> busy_toggle, exit_busy |-> exit_busy,
    public_ip_pending |-> public_ip_pending, poll_timer |-> poll_timer,
    poll_target |-> poll_target, since_poll_started |-> since_poll_started,
    since_down_started |-> since_down_started,
    exit_active_value |-> exit_active_value, exit_has_nodes |-> exit_has_nodes,
    exit_entries |-> exit_entries, exit_alias_map |-> exit_alias_map,
    combo_items |-> combo_items, combo_index |-> combo_index,
    exit_checked |-> exit_checked, exit_controls |-> exit_controls,
    toggle |-> toggle, tray_menu |-> tray_menu,
    timers |-> timers, workers |-> workers,
    signals |-> signals, interaction |-> interaction, boxes |-> boxes,
    hist |-> hist,
    last |-> last ]

\* what the step being taken has done so far
\* (by: the handler the step began with;
\*  active: status.active_exit_node of the snapshot the step refreshed from)
NoLast(op) == [ by |-> op, finish |-> << >>, errors |-> << >>,
                submitted |-> << >>, tick |-> << >>, delivered |-> << >>,
                active |-> << >> ]

\* where no property reads the observation of the steps none is kept:
\* last stays Unobserved
Unobserved == NoLast("unobserved")

\* the observation kept of a step: who began it is kept with the commands
\* it submitted, and of the refresh button and of a direct call of
\* _start_poll also when they submitted none
Observed(l) ==
  [ l EXCEPT !.by = IF /\ l.submitted = << >>
                       /\ @ \notin { "manual_refresh", "start_poll", "unobserved" }
                    THEN "" ELSE @ ]

\* a clock as the state keeps it.  The clocks are read by _poll_iteration
\* alone, which only a running poll timer calls, and the clock of the
\* disconnect only in a session with target False (gui.py:645), which the
\* program starts with down_started (gui.py:729) and so by setting that
\* clock: what a clock shows while no timer runs is read by nothing.  While
\* no timer runs the clocks are not followed and stand at their cap.
Followed(w, c) == IF DOMAIN w.timers = {} THEN ClockCap ELSE c

\* the interaction debouncer (src/gui.py:68, 79, 101-103, 1212-1231).
\*   timer          ms left of the single-shot _interaction_timer, -1 when
\*                  it is not active
\*   since_refresh  time.time() - self._last_refresh_ts in ms, -1 while
\*                  _last_refresh_ts is None
\*   events         user input events reach the event filter in this
\*                  behaviour; without them nothing reads _last_refresh_ts
\*                  and the record is not followed
\* and what the debouncer did since the event that armed the timer:
\*   since_notify   ms since that event
\*   notifies       events seen since (that one included)
\*   starts         start() calls since the timer was last inactive
\*   deferrals      timeouts that put the refresh off
\*   performed_age  since_refresh at the timeout that performed the
\*                  refresh, -2 while none has
INTERACTION_DEBOUNCE_MS == 350
DeferMs                 == 300
RefreshFloorMs          == 800

DebounceStep == 50
BurstLen     == 10
DeferralCap  == 4

NoInteraction ==
  [ events |-> FALSE, timer |-> -1, since_refresh |-> -1, since_notify |-> 0,
    notifies |-> 0, starts |-> 0, deferrals |-> 0, performed_age |-> -2 ]

Watched(i) == IF i.events THEN i ELSE NoInteraction

\* QTimer.start(ms) on the interaction timer
InteractionTimerStart(w, ms) ==
  [ w EXCEPT !.interaction.timer = ms,
             !.interaction.starts = Min(@ + 1, 2) ]

\* d ms pass for the debouncer
InteractionLater(i, d) ==
  [ i EXCEPT !.timer = IF @ < 0 THEN @ ELSE Max(@ - d, 0),
             !.since_refresh = IF @ < 0 THEN @ ELSE Min(@ + d, RefreshFloorMs),
             !.since_notify = Min(@ + d, INTERACTION_DEBOUNCE_MS) ]

\* exit_node_combo.currentData()
currentData(w) ==
  IF w.combo_index >= 0 /\ w.combo_index < Len(w.combo_items)
  THEN w.combo_items[w.combo_index + 1] ELSE None

\* what the step that leaves w adds to the history: the entry selected is
\* the user's after a step of the user on the list and until a refresh
\* selects another; a set-exit-node command has succeeded when the loop has
\* delivered the finished signal of its worker
Remembered(w) ==
  [ w.hist EXCEPT !.choice =
      IF ~@.followed THEN @
      ELSE [ followed |-> TRUE,
             explicit |-> IF w.last.by = "select" THEN TRUE
                          ELSE @.explicit /\ currentData(w) = currentData(Window),
             applied |-> IF /\ w.last.delivered # << >>
                            /\ w.last.delivered[1].kind = "exit"
                            /\ w.last.delivered[1].sig = "finished"
                            /\ Truthy(w.last.delivered[1].arg)
                         THEN w.last.delivered[1].arg ELSE @.applied ] ]

\* the handler's result becomes the state
SetWindow(result) ==
  \E w \in { result } :
    /\ client' = w.client
    /\ busy_toggle' = w.busy_toggle
    /\ exit_busy' = w.exit_busy
    /\ public_ip_pending' = w.public_ip_pending
    /\ poll_timer' = w.poll_timer
    /\ poll_target' = w.poll_target
    /\ since_poll_started' = Followed(w, w.since_poll_started)
    /\ since_down_started' = Followed(w, w.since_down_started)
    /\ exit_active_value' = w.exit_active_value
    /\ exit_has_nodes' = w.exit_has_nodes
    /\ exit_entries' = w.exit_entries
    /\ exit_alias_map' = w.exit_alias_map
    /\ combo_items' = w.combo_items
    /\ combo_index' = w.combo_index
    /\ exit_checked' = w.exit_checked
    /\ exit_controls' = w.exit_controls
    /\ toggle' = w.toggle
    /\ tray_menu' = w.tray_menu
    /\ timers' = w.timers
    /\ workers' = w.workers
    /\ signals' = w.signals
    /\ interaction' = Watched(w.interaction)
    /\ boxes' = w.boxes
    /\ hist' = Remembered(w)
    /\ last' = IF last = Unobserved THEN last ELSE Observed(w.last)

\* smallest id not in use: the identity of a new QTimer or Worker
NewId(used) == CHOOSE i \in 1..(Cardinality(used) + 1) :
                 i \notin used /\ \A j \in 1..(i - 1) : j \in used

\* f without the key k
Without(f, k) == [ x \in DOMAIN f \ { k } |-> f[x] ]

Begin(op) == [ Window EXCEPT !.last = NoLast(op) ]


\* a status fetch: the TailscaleError of client.status(), or its snapshot
\* (msg: str(e), "Blad pobierania statusu tailscale: {err or out}" of a
\* command that printed nothing)
FetchError == [ ok |-> FALSE, msg |-> "Blad pobierania statusu tailscale: " ]
FetchOk(data) == [ ok |-> TRUE, st |-> status(data) ]

\* a warning box and the handler that waits in it
\* (then: what the handler that called _error does when _error returns;
\*  worker: the worker whose callback this is, its _cleanup still to come)
NewBox == [ then |-> "return", worker |-> << >> ]

\* self._error(msg): status bar message and QMessageBox.warning, which is
\* modal: the call returns when the user has closed the box, and until
\* then the loop goes on handling timers and queued signals
_error(w, msg) ==
  [ w EXCEPT !.last.errors = Append(@, msg), !.boxes = Append(@, NewBox) ]

\* the handler that has just called _error goes on with `then` once the
\* box is closed
Waiting(w, then) == [ w EXCEPT !.boxes[Len(w.boxes)].then = then ]

SyncControls(w) ==
  IF ~w.client \/ w.exit_busy
  THEN [ w EXCEPT !.exit_controls =
           [ checkbox |-> FALSE, apply |-> FALSE, combo |-> FALSE ] ]
  ELSE LET checked     == w.exit_checked
           has_nodes   == w.exit_has_nodes
           can_disable == w.exit_active_value # None
       IN [ w EXCEPT !.exit_controls =
              [ checkbox |-> has_nodes \/ can_disable \/ checked,
                combo    |-> checked /\ has_nodes,
                apply    |-> IF checked
                             THEN has_nodes /\ currentData(w) # None
                             ELSE can_disable ] ]

_sync_exit_controls_enabled(w) == Call(SyncControls, w)

\* the tray's "Polacz" and "Rozlacz" follow the status the caller passes
\* (st: << >> when it passes none, and then what the toggle button
\* shows), and neither is enabled without a client or while busy
_update_tray_menu_status(w, st) ==
  [ w EXCEPT !.tray_menu =
      [ connect |-> /\ w.client /\ ~w.busy_toggle
                    /\ ~(IF st # << >> THEN st[1].connected
                         ELSE w.toggle.connected),
        disconnect |-> /\ w.client /\ ~w.busy_toggle
                       /\ (IF st # << >> THEN st[1].connected
                           ELSE w.toggle.connected) ] ]

\* a busy flag that, once set, would never be cleared
\* (the variant C6 is distinguished from)
BusyNeverCleared(w, busy) ==
  _update_tray_menu_status(
    [ w EXCEPT !.busy_toggle = @ \/ busy, !.toggle.enabled = ~(w.busy_toggle \/ busy) ],
    << >>)

_set_busy(w, busy) ==
  _update_tray_menu_status(
    [ w EXCEPT !.busy_toggle = busy, !.toggle.enabled = ~busy ], << >>)

\* Worker(fn) appended to _active_workers and started on the thread pool
\* (a worker is named by its task and a number: << kind, n >>; arg is the
\* exit node its task hands to client.set_exit_node, if it calls it)
_submit_worker(window, kind, exit_requested, arg) ==
  LET body(w) ==
      LET id == << kind, NewId({ k[2] : k \in { x \in DOMAIN w.workers : x[1] = kind } }) >>
      IN
      [ w EXCEPT !.workers = (id :> [ kind |-> kind, exit_requested |-> exit_requested,
                                      arg |-> arg,
                                      ran |-> FALSE, calls |-> 0,
                                      cmds |-> << >>, force |-> FALSE ]) @@ w.workers,
                 !.last.submitted = Append(@, kind) ]
  IN Call(body, window)

\* the worker of the lookup: its task is ip_fetcher.get_public_ip(force=force)
SubmitLookup(w, force) ==
  LET w1 == _submit_worker(w, "ip", FALSE, None)
      new == DOMAIN w1.workers \ DOMAIN w.workers
  IN [ w1 EXCEPT !.workers =
         [ id \in DOMAIN w1.workers |->
             IF id \in new THEN [ w1.workers[id] EXCEPT !.force = force ]
             ELSE w1.workers[id] ] ]

\* (the variant C38 is distinguished from: a forced request is not dropped)
FetchIpWhenForced(window, force) ==
  IF window.public_ip_pending /\ ~force THEN window
  ELSE SubmitLookup([ window EXCEPT !.public_ip_pending = TRUE ], force)

fetch_public_ip(window, force) ==
  LET body(w) ==
      IF w.public_ip_pending THEN w
      ELSE SubmitLookup([ w EXCEPT !.public_ip_pending = TRUE ], force)
  IN Call(body, window)

\* the command values of the eligible devices, in list order (combo items)
ComboItemsOf(exit_nodes) ==
  LET args == [ i \in 1..Len(exit_nodes) |->
                  _preferred_exit_node_argument(exit_nodes[i]) ]
  IN SelectSeq(args, Truthy)

\* self._exit_alias_map after the loop has handled the first n devices:
\* a device without command value is skipped, and
\* self._exit_alias_map[alias] = command_value overwrites what is there
RECURSIVE AliasMapAfter(_, _)
AliasMapAfter(exit_nodes, n) ==
  IF n = 0 THEN << >>
  ELSE LET prev == AliasMapAfter(exit_nodes, n - 1)
           command_value == _preferred_exit_node_argument(exit_nodes[n])
           aliases == _exit_aliases_for_device(<< exit_nodes[n] >>)
       IN IF ~Truthy(command_value) THEN prev
          ELSE [ a \in DOMAIN prev \cup aliases |->
                   IF a \in aliases THEN command_value ELSE prev[a] ]

\* self._exit_alias_map after the loop
AliasMapOf(exit_nodes) == AliasMapAfter(exit_nodes, Len(exit_nodes))

\* the values the loop over the active device's aliases can stop at: the set
\* is iterated in no fixed order
ActiveCandidates(w, active) ==
  { w.exit_alias_map[a] :
      a \in { x \in _exit_aliases_for_device(active) \cap DOMAIN w.exit_alias_map :
                Truthy(w.exit_alias_map[x]) } }

\* index of the first item whose data is value (findData), -1 if none
findData(items, value) ==
  LET hit == { i \in 1..Len(items) : items[i] = value }
  IN IF hit = {} THEN -1 ELSE (CHOOSE i \in hit : \A j \in hit : i <= j) - 1

\* (the variant C39 is distinguished from: lists rebuilt without clear(),
\* what an earlier snapshot left in the alias map and the entries stays)
ListsKeptAcrossSnapshots(w, items, alias_map) ==
  [ w EXCEPT !.combo_items = items,
             !.combo_index = IF Len(items) > 0 THEN 0 ELSE -1,
             !.exit_entries = Range(items) \cup w.exit_entries,
             !.exit_alias_map = alias_map @@ w.exit_alias_map,
             !.exit_has_nodes = Len(items) > 0 ]

\* clear(), then addItem per eligible device with a command value: the
\* combo box, _exit_entries, _exit_alias_map and _exit_has_nodes rebuilt.
\* clear() leaves no current item; the first addItem on an empty combo box
\* makes item 0 current.
RebuildExitLists(w, items, alias_map) ==
  [ w EXCEPT !.combo_items = items,
             !.combo_index = IF Len(items) > 0 THEN 0 ELSE -1,
             !.exit_entries = Range(items),
             !.exit_alias_map = alias_map,
             !.exit_has_nodes = Len(items) > 0 ]

\* (the variant C20 is distinguished from: the preferred argument is taken
\* whether or not the list has it)
PreferredUnlisted(w, preferred) ==
  IF Truthy(preferred) THEN preferred ELSE None

\* preferred if preferred and preferred in self._exit_entries, else None
PreferredIfListed(w, preferred) ==
  IF Truthy(preferred) /\ preferred \in w.exit_entries THEN preferred ELSE None

\* (the variant C11 is distinguished from: the active device resolves to its
\* own preferred argument, the alias map unused)
ActiveValueIsPreferred(w, active, pick) ==
  IF active = << >> THEN None
  ELSE PreferredUnlisted(w, _preferred_exit_node_argument(active[1]))

\* active_value: the first alias of the active device that the map knows
\* (pick: the one the iteration of the set stops at), else its preferred
\* argument if that is listed
ActiveValueOf(w, active, pick) ==
  IF active = << >> THEN None
  ELSE IF ActiveCandidates(w, active) # {} THEN pick
  ELSE PreferredIfListed(w, _preferred_exit_node_argument(active[1]))

\* target_value = active_value or previous_value; the combo's selection
SelectTarget(w, target_value) ==
  IF Truthy(target_value) /\ target_value \in w.exit_entries
  THEN IF findData(w.combo_items, target_value) >= 0
       THEN [ w EXCEPT !.combo_index = findData(w.combo_items, target_value) ]
       ELSE w
  ELSE IF w.exit_has_nodes /\ w.combo_index = -1
       THEN [ w EXCEPT !.combo_index = 0 ]
       ELSE w

_refresh_exit_nodes(window, st, pick) ==
  LET previous_value == currentData(window)
      rebuilt(w) == RebuildExitLists(w, ComboItemsOf(st.exit_nodes),
                                     AliasMapOf(st.exit_nodes))
      resolved(w) ==
        [ w EXCEPT !.exit_active_value = ActiveValueOf(w, st.active_exit_node, pick) ]
      selected(w) ==
        SelectTarget(w, IF Truthy(w.exit_active_value) THEN w.exit_active_value
                        ELSE previous_value)
      checked(w) == [ w EXCEPT !.exit_checked = (w.exit_active_value # None) ]
  IN _sync_exit_controls_enabled(
       Call(checked, Call(selected, Call(resolved, Call(rebuilt, window)))))

\* the choices of pick that _refresh_exit_nodes can make on a fetch
Picks(fetch) ==
  IF ~fetch.ok \/ fetch.st.active_exit_node = << >> THEN { None }
  ELSE LET c == { AliasMapOf(fetch.st.exit_nodes)[a] :
                    a \in { x \in _exit_aliases_for_device(fetch.st.active_exit_node)
                                   \cap DOMAIN AliasMapOf(fetch.st.exit_nodes) :
                              Truthy(AliasMapOf(fetch.st.exit_nodes)[x]) } }
       IN IF c = {} THEN { None } ELSE c

refresh_status(window, fetch, pick) ==
  LET body(w) ==
      IF ~w.client
      THEN _update_tray_menu_status(
             _sync_exit_controls_enabled(
               [ w EXCEPT !.exit_has_nodes = FALSE, !.exit_active_value = None ]),
             << >>)
      ELSE IF ~fetch.ok
      THEN _sync_exit_controls_enabled(
             [ w EXCEPT !.exit_has_nodes = FALSE, !.exit_active_value = None ])
      ELSE LET st == fetch.st
               w0 == _update_tray_menu_status(w, << st >>)
               w1 == IF ~w.busy_toggle
                     THEN [ w0 EXCEPT !.toggle =
                              [ text |-> IF st.connected THEN "Rozlacz" ELSE "Polacz",
                                enabled |-> TRUE, connected |-> st.connected ] ]
                     ELSE w0
           IN [ _refresh_exit_nodes(w1, st, pick) EXCEPT
                  !.interaction.since_refresh = 0,
                  !.last.active = st.active_exit_node ]
  IN Call(body, window)

-----------------------------------------------------------------------------
(* src/gui.py: the connect / disconnect transition and its poller *)

\* a clock d ms later
Later(c, cap, d) == Min(c + d, cap)

\* a poll timer d ms later: ms left until it is due, negative once it is
\* overdue.  How long it has been overdue matters up to one interval (see
\* Rearmed); beyond that it is kept as one interval and a millisecond.
TimerLater(left, d) == Max(left - d, 0 - (PollIntervalMs + 1))

\* d ms pass: clocks count, running timers count down
Elapse(window, d) ==
  LET body(w) ==
      [ w EXCEPT !.since_poll_started = Later(@, ClockCap, d),
                 !.since_down_started = Later(@, ClockCap, d),
                 !.timers = [ t \in DOMAIN w.timers |-> TimerLater(w.timers[t], d) ],
                 !.interaction = InteractionLater(@, d) ]
  IN Call(body, window)

\* a stop() that would leave the timer running
\* (the variant C7 is distinguished from)
TimerLeftRunning(window) == window

\* self._poll_timer.stop(): the timer no longer runs
StopPollTimer(window) ==
  LET body(w) ==
      IF w.poll_timer # NoTimer /\ w.poll_timer \in DOMAIN w.timers
      THEN [ w EXCEPT !.timers = Without(w.timers, w.poll_timer) ]
      ELSE w
  IN Call(body, window)

_start_poll(window, target_connected, down_started) ==
  LET body(w) ==
      LET w1 == StopPollTimer(w)
          id == NewId(DOMAIN w.timers)
      IN [ w1 EXCEPT !.poll_target = << target_connected >>,
                     !.since_poll_started = 0,
                     !.since_down_started = IF down_started THEN 0 ELSE @,
                     !.poll_timer = id,
                     !.timers = (id :> PollIntervalMs) @@ w1.timers,
                     !.hist.session = TRUE ]
  IN Call(body, window)

\* the connect limit for both directions
\* (the variant C28 is distinguished from)
ConnectLimitForBoth(target) == PollTimeoutMs

\* the two limits exchanged (the variant C2 is distinguished from)
LimitsExchanged(target) ==
  IF target = << FALSE >> THEN PollTimeoutMs ELSE DisconnectTimeoutMs

\* timeout_limit = self._disconnect_timeout_sec if self._poll_target is False
\*                 else self._poll_timeout_sec
timeout_limit(target) ==
  IF target = << FALSE >> THEN DisconnectTimeoutMs ELSE PollTimeoutMs

\* a finish step that would leave the poller as it is
\* (the variant C8 is distinguished from)
FinishLeavesPoller(window, error_msg, status_msg, fetch, pick) ==
  LET refreshed(w) ==
        fetch_public_ip(refresh_status(_set_busy(w, FALSE), fetch, pick), TRUE)
      reported(w) ==
        IF Truthy(error_msg) THEN _error(w, error_msg) ELSE w
      observed(w) ==
        [ w EXCEPT !.last.finish = Append(@, [ error_msg |-> error_msg,
                                               status_msg |-> status_msg ]),
                   !.hist.finishes = Min(@ + 1, 2) ]
  IN Call(observed, Call(reported, Call(refreshed, window)))

\* error_msg, status_msg: None when the caller does not pass them
_finish_transition(window, error_msg, status_msg, fetch, pick) ==
  LET stopped(w) == [ StopPollTimer(w) EXCEPT !.poll_timer = NoTimer,
                                               !.poll_target = << >> ]
      refreshed(w) ==
        fetch_public_ip(refresh_status(_set_busy(w, FALSE), fetch, pick), TRUE)
      reported(w) ==
        IF Truthy(error_msg) THEN _error(w, error_msg) ELSE w
      observed(w) ==
        [ w EXCEPT !.last.finish = Append(@, [ error_msg |-> error_msg,
                                               status_msg |-> status_msg ]),
                   !.hist.finishes = Min(@ + 1, 2) ]
  IN Call(observed, Call(reported, Call(refreshed, Call(stopped, window))))

MsgTimeout == "Przekroczono czas oczekiwania na zmiane stanu"

\* a tick that would end the session on any failed fetch
\* (the variant C29 is distinguished from)
FetchFailureEndsSession(has_client, target, elapsed, fetch, since_down) ==
  IF ~has_client THEN << "Brak klienta", None >>
  ELSE IF elapsed > timeout_limit(target) THEN << MsgTimeout, None >>
  ELSE IF fetch.ok
  THEN IF << fetch.st.connected >> = target
       THEN << None, IF fetch.st.connected THEN "Polaczono" ELSE "Rozlaczono" >>
       ELSE IF /\ target = << FALSE >>
               /\ since_down >= DisconnectGraceMs
               /\ Lower(fetch.st.backend_state) # RunningLabel
       THEN << None, "Rozlaczono (backend zatrzymany)" >>
       ELSE << >>
  ELSE << None, "Rozlaczono (status niedostepny)" >>

\* a tick that would decide on connected = True alone
\* (the variant C3 is distinguished from)
DecidesOnConnectedOnly(has_client, target, elapsed, fetch, since_down) ==
  IF ~has_client THEN << "Brak klienta", None >>
  ELSE IF elapsed > timeout_limit(target) THEN << MsgTimeout, None >>
  ELSE IF fetch.ok /\ fetch.st.connected /\ target = << TRUE >>
  THEN << None, "Polaczono" >>
  ELSE << >>

\* The decision of a tick whose fetch, if it makes one, returns fetch after
\* which since_down ms have passed since _down_started_at: << >> to go on
\* polling, else << error_msg, status_msg >> for _finish_transition.
PollDecision(has_client, target, elapsed, fetch, since_down) ==
  IF ~has_client THEN << "Brak klienta", None >>
  ELSE IF elapsed > timeout_limit(target) THEN << MsgTimeout, None >>
  ELSE IF fetch.ok
  THEN IF << fetch.st.connected >> = target
       THEN << None, IF fetch.st.connected THEN "Polaczono" ELSE "Rozlaczono" >>
       ELSE IF /\ target = << FALSE >>
               /\ since_down >= DisconnectGraceMs
               /\ Lower(fetch.st.backend_state) # RunningLabel
       THEN << None, "Rozlaczono (backend zatrzymany)" >>
       ELSE << >>
  ELSE IF target = << FALSE >>
       THEN << None, "Rozlaczono (status niedostepny)" >>
       ELSE << >>

\* whether the tick reaches client.status()
Fetches_status(has_client, target, elapsed) ==
  has_client /\ ~(elapsed > timeout_limit(target))

\* what a tick read: the clock, and the snapshot if it fetched one
Seen(w, fetched, fetch, since_down) ==
  [ elapsed |-> w.since_poll_started, target |-> w.poll_target,
    fetched |-> fetched,
    ok |-> fetched /\ fetch.ok,
    connected |-> fetched /\ fetch.ok /\ fetch.st.connected,
    running |-> fetched /\ fetch.ok
                  /\ Lower(fetch.st.backend_state) = RunningLabel,
    since_down |-> IF fetched /\ fetch.ok /\ w.poll_target = << FALSE >>
                   THEN since_down ELSE 0 ]

\* fetch: the result of client.status() if the tick reaches it, which takes
\* d ms; fetch2, pick: the refresh of _finish_transition
_poll_iteration(window, fetch, d, fetch2, pick) ==
  LET decided(w) ==
        PollDecision(w.client, w.poll_target, w.since_poll_started, fetch,
                     Later(w.since_down_started, ClockCap, d))
      fetched(w) ==
        IF Fetches_status(w.client, w.poll_target, w.since_poll_started)
        THEN [ Elapse(w, d) EXCEPT !.last.tick =
                 << Seen(w, TRUE, fetch, Later(w.since_down_started, ClockCap, d)) >> ]
        ELSE [ w EXCEPT !.last.tick = << Seen(w, FALSE, fetch, 0) >> ]
      finished(w) ==
        IF decided(window) = << >> THEN w
        ELSE _finish_transition(w, decided(window)[1], decided(window)[2],
                                fetch2, pick)
  IN Call(finished, Call(fetched, window))

\* the transition begins: nothing of it has been observed yet
NewTransition(w) ==
  [ w EXCEPT !.hist.session = FALSE, !.hist.finishes = 0 ]

start_connection(window) ==
  LET body(w) ==
      LET w1 == [ _set_busy(NewTransition(w), TRUE) EXCEPT !.toggle.text = "Laczenie..." ]
          w2 == IF w1.exit_checked /\ currentData(w1) = None /\ Len(w1.combo_items) > 0
                THEN [ w1 EXCEPT !.combo_index = 0 ] ELSE w1
          desired_exit_node == IF w1.exit_checked THEN currentData(w2) ELSE None
          w3 == IF Truthy(desired_exit_node)
                THEN _sync_exit_controls_enabled([ w2 EXCEPT !.exit_busy = TRUE ])
                ELSE w2
      IN _submit_worker(w3, "up", Truthy(desired_exit_node), desired_exit_node)
  IN Call(body, window)

_handle_connection_success(window, exit_node_requested) ==
  LET body(w) ==
      LET w1 == IF exit_node_requested THEN [ w EXCEPT !.exit_busy = FALSE ] ELSE w
      IN _start_poll(_sync_exit_controls_enabled(w1), TRUE, FALSE)
  IN Call(body, window)

\* (the variant C21 is distinguished from: the failure ends nothing)
ConnectionErrorSwallowed(window, msg, exit_node_requested, fetch, pick) ==
  IF exit_node_requested
  THEN _sync_exit_controls_enabled([ window EXCEPT !.exit_busy = FALSE ])
  ELSE window

_handle_connection_error(window, msg, exit_node_requested, fetch, pick) ==
  LET body(w) ==
      LET w1 == IF exit_node_requested
                THEN _sync_exit_controls_enabled([ w EXCEPT !.exit_busy = FALSE ])
                ELSE w
      IN _finish_transition(w1, msg, None, fetch, pick)
  IN Call(body, window)

stop_connection(w) ==
  _submit_worker(
    [ _set_busy(NewTransition(w), TRUE) EXCEPT !.toggle.text = "Rozlaczanie..." ],
    "down", FALSE, None)

\* (the variant C35 is distinguished from: the state the button shows
\* decides, and a failed fetch is passed over)
ToggleByShownState(w, fetch) ==
  IF ~w.client \/ w.busy_toggle THEN w
  ELSE IF w.toggle.connected THEN stop_connection(w)
  ELSE start_connection(w)

\* fetch: the result of the handler's own client.status()
_handle_toggle_connection(w, fetch) ==
  IF ~w.client \/ w.busy_toggle THEN w
  ELSE IF ~fetch.ok THEN _error(w, "Nie mozna pobrac statusu: " \o fetch.msg)
  ELSE IF fetch.st.connected THEN stop_connection(w)
  ELSE start_connection(w)

\* (the variant C30 is distinguished from: the busy flag is not looked at)
TrayDisconnectWhileBusy(w, fetch) ==
  IF ~w.client THEN w
  ELSE IF fetch.ok /\ ~fetch.st.connected THEN w
  ELSE stop_connection(w)

\* (the variant C22 is distinguished from: the handler does not look for
\* the client)
TrayConnectUnguarded(w, fetch) ==
  IF w.busy_toggle THEN w
  ELSE IF fetch.ok /\ fetch.st.connected THEN w
  ELSE start_connection(w)

_on_tray_connect(w, fetch) ==
  IF ~w.client \/ w.busy_toggle THEN w
  ELSE IF fetch.ok /\ fetch.st.connected THEN w
  ELSE start_connection(w)

_on_tray_disconnect(w, fetch) ==
  IF ~w.client \/ w.busy_toggle THEN w
  ELSE IF fetch.ok /\ ~fetch.st.connected THEN w
  ELSE stop_connection(w)

-----------------------------------------------------------------------------
(* src/gui.py: the exit-node controls *)

\* target: the argument of the task's client.set_exit_node
_perform_exit_operation(w, target) ==
  _submit_worker(_sync_exit_controls_enabled([ w EXCEPT !.exit_busy = TRUE ]),
                 "exit", FALSE, target)

_on_exit_apply(w) ==
  IF ~w.client \/ w.exit_busy THEN w
  ELSE IF w.exit_checked
       THEN IF ~Truthy(currentData(w)) THEN _error(w, "Wybierz exit node z listy.")
            ELSE _perform_exit_operation(w, currentData(w))
       ELSE IF w.exit_active_value = None THEN w
            ELSE _perform_exit_operation(w, None)

_on_exit_operation_success(window, fetch, pick) ==
  LET body(w) ==
      _sync_exit_controls_enabled(
        fetch_public_ip(refresh_status([ w EXCEPT !.exit_busy = FALSE ], fetch, pick), TRUE))
  IN Call(body, window)

\* _on_exit_operation_error after its self._error(msg)
ExitErrorRest(w, fetch, pick) ==
  _sync_exit_controls_enabled(fetch_public_ip(refresh_status(w, fetch, pick), TRUE))

\* up to the warning box if there is a message, to the end if there is none
_on_exit_operation_error(window, msg, fetch, pick) ==
  LET body(w) ==
      LET w1 == [ w EXCEPT !.exit_busy = FALSE ]
      IN IF msg # "" THEN Waiting(_error(w1, msg), "refresh")
         ELSE ExitErrorRest(w1, fetch, pick)
  IN Call(body, window)

_on_exit_toggle_checkbox(w, checked) ==
  LET w1 == [ w EXCEPT !.exit_checked = checked ]
      w2 == IF checked /\ w1.exit_has_nodes /\ w1.combo_index = -1
            THEN [ w1 EXCEPT !.combo_index = 0 ] ELSE w1
  IN _sync_exit_controls_enabled(w2)

_on_exit_selection_changed(w, index) ==
  _sync_exit_controls_enabled([ w EXCEPT !.combo_index = index ])

\* (the variant C12 is distinguished from: every event restarts the timer)
ScheduleRestarts(w) == InteractionTimerStart(w, INTERACTION_DEBOUNCE_MS)

\* if not self._interaction_timer.isActive(): start(INTERACTION_DEBOUNCE_MS)
_schedule_interaction_refresh(w) ==
  IF w.interaction.timer < 0
  THEN InteractionTimerStart(w, INTERACTION_DEBOUNCE_MS)
  ELSE w

\* a MouseButtonPress, KeyPress, Wheel or FocusIn event
eventFilter(w) ==
  LET armed == w.interaction.timer >= 0
      counted == [ w EXCEPT !.interaction.notifies =
                     IF armed THEN Min(@ + 1, BurstLen) ELSE 1,
                   !.interaction.since_notify = IF armed THEN @ ELSE 0,
                   !.interaction.deferrals = IF armed THEN @ ELSE 0,
                   !.interaction.performed_age = IF armed THEN @ ELSE -2 ]
  IN _schedule_interaction_refresh(counted)

\* self._last_refresh_ts and (now - self._last_refresh_ts) < 0.8
TooSoon(i) == i.since_refresh >= 0 /\ i.since_refresh < RefreshFloorMs

\* (the variant C13 is distinguished from: a refresh that is too soon is
\* dropped)
DroppedRefresh(w) ==
  [ w EXCEPT !.interaction.deferrals = Min(@ + 1, DeferralCap) ]

\* self._interaction_timer.start(300); return
DeferredRefresh(w) ==
  InteractionTimerStart(
    [ w EXCEPT !.interaction.deferrals = Min(@ + 1, DeferralCap) ], DeferMs)

\* the single-shot timer times out (it is inactive from then on) and its
\* slot runs
_interaction_refresh(window, fetch, pick) ==
  LET timed_out(w) == [ w EXCEPT !.interaction.timer = -1,
                                 !.interaction.starts = 0 ]
      slot(w) ==
        IF TooSoon(w.interaction) THEN DeferredRefresh(w)
        ELSE fetch_public_ip(
               refresh_status(
                 [ w EXCEPT !.interaction.performed_age =
                              w.interaction.since_refresh ], fetch, pick),
               FALSE)
  IN Call(slot, Call(timed_out, window))

_manual_refresh(w, fetch, pick) ==
  fetch_public_ip(refresh_status(w, fetch, pick), TRUE)

-----------------------------------------------------------------------------
(* src/gui.py: Worker and the delivery of its signals *)

\* the TailscaleError a client command raises: f"<prefix>: {err or out}"
CommandError(prefix, detail) ==
  [ raised |-> "TailscaleError", msg |-> prefix \o detail ]

\* what the CLI can print when a command fails
Details == { "" }

Returned == [ raised |-> "none", msg |-> "" ]

\* the ways a client command can end: it returns, it raises TailscaleError
\* with its message, or something else is raised
CommandResults(prefix) ==
  { Returned }
  \cup { [ raised |-> "Exception", msg |-> d ] : d \in Details }
  \cup { CommandError(prefix, d) : d \in Details }

\* how a task ended, and the client commands it called, in order
Ran(result, cmds) ==
  [ raised |-> result.raised, msg |-> result.msg, cmds |-> cmds ]

\* (the variant C34 is distinguished from: the exit node is set although up
\* failed)
ExitSetWhateverUp(desired_exit_node, up, exit) ==
  IF Truthy(desired_exit_node)
  THEN Ran(IF up.raised # "none" THEN up ELSE exit, << "up", "set_exit_node" >>)
  ELSE Ran(up, << "up" >>)

\* the task of start_connection: self.client.up([]), then, if an exit node
\* is desired, self.client.set_exit_node(desired_exit_node); up and exit are
\* the ways the two commands end when they are called
run_up_and_maybe_exit(desired_exit_node, up, exit) ==
  IF up.raised # "none" THEN Ran(up, << "up" >>)
  ELSE IF Truthy(desired_exit_node)
  THEN Ran(exit, << "up", "set_exit_node" >>)
  ELSE Ran(up, << "up" >>)

\* the ways the task of a worker can end
TaskOutcomes(wk) ==
  IF wk.kind = "up"
  THEN { run_up_and_maybe_exit(wk.arg, up, exit) :
           up \in CommandResults("Blad wlaczania tailscale: "),
           exit \in CommandResults("Blad ustawiania exit node: ") }
  ELSE IF wk.kind = "down"
  THEN { Ran(r, << "down" >>) : r \in CommandResults("Blad wylaczania tailscale: ") }
  ELSE IF wk.kind = "exit"
  THEN { Ran(r, << "set_exit_node" >>) :
           r \in CommandResults("Blad ustawiania exit node: ") }
  ELSE { Ran(Returned, << "get_public_ip" >>) }
       \cup { Ran([ raised |-> "Exception", msg |-> d ], << "get_public_ip" >>) :
                d \in Details }

\* a run() that would emit finished after the error as well
\* (the variant C4 is distinguished from)
RunEmitsBoth(outcome) ==
  IF outcome.raised = "TailscaleError"
  THEN << [ sig |-> "error", msg |-> outcome.msg ],
          [ sig |-> "finished", msg |-> "" ] >>
  ELSE IF outcome.raised = "Exception"
  THEN << [ sig |-> "error", msg |-> "Nieoczekiwany blad: " \o outcome.msg ],
          [ sig |-> "finished", msg |-> "" ] >>
  ELSE << [ sig |-> "finished", msg |-> "" ] >>

\* a run() that would forward str(e) of any exception as it is
\* (the variant C5 is distinguished from)
RunForwardsBareMessage(outcome) ==
  IF outcome.raised = "none"
  THEN << [ sig |-> "finished", msg |-> "" ] >>
  ELSE << [ sig |-> "error", msg |-> outcome.msg ] >>

\* Worker.run: the signals it emits for the way self.fn() ended
Worker_run(outcome) ==
  IF outcome.raised = "TailscaleError"
  THEN << [ sig |-> "error", msg |-> outcome.msg ] >>
  ELSE IF outcome.raised = "Exception"
  THEN << [ sig |-> "error", msg |-> "Nieoczekiwany blad: " \o outcome.msg ] >>
  ELSE << [ sig |-> "finished", msg |-> "" ] >>

\* the worker id runs on a pool thread; its signals are queued for the loop
\* (raised: how the task ended, kept with the signal it led to)
RunWorker(window, id, outcome) ==
  LET body(w) ==
      LET emitted == Worker_run(outcome) IN
      [ w EXCEPT !.workers[id].ran = TRUE,
                 !.workers[id].cmds = outcome.cmds,
                 !.signals = @ \cup { [ worker |-> id, sig |-> emitted[i].sig,
                                        msg |-> emitted[i].msg,
                                        raised |-> outcome.raised ] :
                                      i \in 1..Len(emitted) } ]
  IN Call(body, window)

\* on_success(result) of the worker's submitter
OnSuccess(w, wk, fetch, pick) ==
  IF wk.kind = "up" THEN _handle_connection_success(w, wk.exit_requested)
  ELSE IF wk.kind = "down" THEN _start_poll(w, FALSE, TRUE)
  ELSE IF wk.kind = "exit" THEN _on_exit_operation_success(w, fetch, pick)
  ELSE [ w EXCEPT !.public_ip_pending = FALSE ]

\* on_error(msg) of the worker's submitter
OnError(w, wk, msg, fetch, pick) ==
  IF wk.kind = "up"
  THEN _handle_connection_error(w, msg, wk.exit_requested, fetch, pick)
  ELSE IF wk.kind = "down"
  THEN _finish_transition(w, msg, None, fetch, pick)
  ELSE IF wk.kind = "exit" THEN _on_exit_operation_error(w, msg, fetch, pick)
  ELSE [ w EXCEPT !.public_ip_pending = FALSE ]

\* signals still queued for the worker id
Pending(sigs, id) == Cardinality({ s \in sigs : s.worker = id })

\* _cleanup of _submit_worker for the worker id
\* (a worker with a signal still queued is kept for that signal's callback)
_cleanup(w, id) ==
  IF Pending(w.signals, id) = 0
  THEN [ w EXCEPT !.workers = Without(@, id) ]
  ELSE [ w EXCEPT !.workers[id].calls = @ + 1 ]

\* _handle_success / _handle_error of _submit_worker, run by the loop for
\* the queued signal s: the callback, then _cleanup.  Workers end in any
\* order, so the loop may find any queued signal first.  A callback that
\* opens a warning box waits in it, _cleanup with it.
DeliverSignal(window, s, fetch, pick) ==
  LET wk == window.workers[s.worker]
      taken(w) == [ w EXCEPT !.signals = @ \ { s } ]
      called(w) ==
        IF s.sig = "finished" THEN OnSuccess(w, wk, fetch, pick)
        ELSE OnError(w, wk, s.msg, fetch, pick)
      observed(w) ==
        [ w EXCEPT !.last.delivered =
            << [ worker |-> s.worker, kind |-> wk.kind, sig |-> s.sig,
                 msg |-> s.msg, raised |-> s.raised, arg |-> wk.arg,
                 cmds |-> wk.cmds, force |-> wk.force,
                 calls |-> wk.calls + 1 ] >> ]
      finally(w) ==
        IF Len(w.boxes) > Len(window.boxes)
        THEN [ w EXCEPT !.boxes[Len(w.boxes)].worker = << s.worker >>,
                        !.workers[s.worker].calls = @ + 1 ]
        ELSE _cleanup(w, s.worker)
  IN Call(finally, Call(observed, Call(called, Call(taken, window))))

\* the user closes the newest warning box: its _error returns, the handler
\* that called it runs to its end (fetch: the result of its refresh) and,
\* if it is a worker's callback, _cleanup follows
BoxClosed(window, fetch, pick) ==
  LET box == window.boxes[Len(window.boxes)]
      closed(w) == [ w EXCEPT !.boxes = SubSeq(@, 1, Len(@) - 1) ]
      resumed(w) ==
        IF box.then = "refresh" THEN ExitErrorRest(w, fetch, pick) ELSE w
      finally(w) ==
        IF box.worker = << >> THEN w ELSE _cleanup(w, box.worker[1])
  IN Call(finally, Call(resumed, Call(closed, window)))

-----------------------------------------------------------------------------
(* The status documents the GUI can be shown *)

GuiSelf(ips) == << RawPeer("self-id", "myhost", None, ips, FALSE, FALSE) >>

DocDown ==
  [ BackendState |-> StrStopped, Self |-> GuiSelf(<< >>), Peer |-> << >>,
    ExitNodeStatus |-> << >> ]
DocStarting ==
  [ BackendState |-> StrRunning, Self |-> GuiSelf(<< >>), Peer |-> << >>,
    ExitNodeStatus |-> << >> ]
DocUp ==
  [ BackendState |-> StrRunning, Self |-> GuiSelf(<< "100.64.0.1" >>),
    Peer |-> << PeerExit(FALSE), PeerWork >>, ExitNodeStatus |-> << >> ]
DocUpExit ==
  [ BackendState |-> StrRunning, Self |-> GuiSelf(<< "100.64.0.1" >>),
    Peer |-> << PeerExit(TRUE), PeerWork >>, ExitNodeStatus |-> << >> ]

\* peer1 before it advertises a Hostname: its command value is its name
PeerNamed ==
  << "peer1", RawPeer(None, None, "exit-host.tail.ts.net", << "100.64.0.2" >>,
                      TRUE, FALSE) >>
\* a device that acts as exit node without being eligible: it carries the
\* name of peer1
PeerForeign ==
  << "peer3", RawPeer(None, "exit-host.tail.ts.net", None, << "100.64.0.4" >>,
                      FALSE, TRUE) >>
\* a device that acts as exit node and shares nothing with the others
PeerAlone ==
  << "peer4", RawPeer(None, "relay", None, << "100.64.0.5" >>, FALSE, TRUE) >>

\* a second eligible device
PeerSpare ==
  << "peer5", RawPeer(None, "spare", None, << "100.64.0.6" >>, TRUE, FALSE) >>

DocNamed ==
  [ BackendState |-> StrRunning, Self |-> GuiSelf(<< "100.64.0.1" >>),
    Peer |-> << PeerNamed, PeerWork >>, ExitNodeStatus |-> << >> ]
DocShared ==
  [ BackendState |-> StrRunning, Self |-> GuiSelf(<< "100.64.0.1" >>),
    Peer |-> << PeerNamed, PeerForeign >>, ExitNodeStatus |-> << >> ]
DocForeign ==
  [ BackendState |-> StrRunning, Self |-> GuiSelf(<< "100.64.0.1" >>),
    Peer |-> << PeerNamed, PeerAlone >>, ExitNodeStatus |-> << >> ]
DocTwo ==
  [ BackendState |-> StrRunning, Self |-> GuiSelf(<< "100.64.0.1" >>),
    Peer |-> << PeerNamed, PeerSpare >>, ExitNodeStatus |-> << >> ]

\* the device that acts as exit node has the name of peer1 and is not
\* listed, and no listed device shares an alias with it
DocGhost ==
  [ BackendState |-> StrRunning, Self |-> GuiSelf(<< "100.64.0.1" >>),
    Peer |-> << PeerSpare, PeerForeign >>, ExitNodeStatus |-> << >> ]

GuiInputs == { DocDown, DocStarting, DocUp, DocUpExit }

Fetches == { FetchError } \cup { FetchOk(d) : d \in GuiInputs }

-----------------------------------------------------------------------------
(* The window after MainWindow.__init__ *)

\* choice: what is remembered of the exit node chosen, where that is
\* followed: whether the entry selected is one the user selected, and the
\* target of the last exit-node command that succeeded
NoChoice == [ followed |-> FALSE, explicit |-> FALSE, applied |-> None ]

\* strays: callbacks of exit workers that are followed no further may come
NoHist ==
  [ session |-> FALSE, finishes |-> 0, choice |-> NoChoice, strays |-> FALSE ]

\* the fields as __init__ and _build_ui set them, before the first refresh
Fields(hasClient) ==
  [ client |-> hasClient, busy_toggle |-> FALSE, exit_busy |-> FALSE,
    public_ip_pending |-> FALSE, poll_timer |-> NoTimer, poll_target |-> << >>,
    since_poll_started |-> ClockCap, since_down_started |-> ClockCap,
    exit_active_value |-> None, exit_has_nodes |-> FALSE,
    exit_entries |-> {}, exit_alias_map |-> << >>,
    combo_items |-> << >>, combo_index |-> -1,
    exit_checked |-> FALSE,
    exit_controls |-> [ checkbox |-> hasClient, apply |-> FALSE, combo |-> FALSE ],
    toggle |-> [ text |-> "Polacz", enabled |-> hasClient, connected |-> FALSE ],
    tray_menu |-> [ connect |-> hasClient, disconnect |-> FALSE ],
    timers |-> << >>, workers |-> << >>, signals |-> {},
    interaction |-> NoInteraction, boxes |-> << >>,
    hist |-> NoHist, last |-> NoLast("init") ]

\* self.refresh_status(); self.fetch_public_ip(force=True)
Constructed(hasClient, fetch, pick) ==
  fetch_public_ip(refresh_status(Fields(hasClient), fetch, pick), TRUE)

IsWindow(w) ==
  /\ client = w.client
  /\ busy_toggle = w.busy_toggle
  /\ exit_busy = w.exit_busy
  /\ public_ip_pending = w.public_ip_pending
  /\ poll_timer = w.poll_timer
  /\ poll_target = w.poll_target
  /\ since_poll_started = Followed(w, w.since_poll_started)
  /\ since_down_started = Followed(w, w.since_down_started)
  /\ exit_active_value = w.exit_active_value
  /\ exit_has_nodes = w.exit_has_nodes
  /\ exit_entries = w.exit_entries
  /\ exit_alias_map = w.exit_alias_map
  /\ combo_items = w.combo_items
  /\ combo_index = w.combo_index
  /\ exit_checked = w.exit_checked
  /\ exit_controls = w.exit_controls
  /\ toggle = w.toggle
  /\ tray_menu = w.tray_menu
  /\ timers = w.timers
  /\ workers = w.workers
  /\ signals = w.signals
  /\ interaction = Watched(w.interaction)
  /\ boxes = w.boxes
  /\ hist = w.hist
  /\ last = Observed(w.last)

Init ==
  /\ \E hasClient \in BOOLEAN, fetch \in Fetches :
       \E pick \in Picks(fetch) : IsWindow(Constructed(hasClient, fetch, pick))
  /\ raw = NoRaw
  /\ dev = << >>
  /\ out = NoOut
  /\ fetcher = NoFetcher

-----------------------------------------------------------------------------
(* Steps of the interaction loop, the thread pool and the clock *)

Pure == << raw, dev, out, fetcher >>

\* a warning box is modal: the widgets of the window take no input while
\* one is open (the tray menu is not a widget of the window)
WindowTakesInput == boxes = << >>

\* the poller's owner calls _start_poll, with the arguments the program
\* calls it with: _start_poll(True) (gui.py:715) and
\* _start_poll(False, down_started=True) (gui.py:729)
CallStartPoll ==
  /\ \E target_connected \in BOOLEAN :
       SetWindow(_start_poll(Begin("start_poll"), target_connected,
                             ~target_connected))
  /\ UNCHANGED Pure

\* d ms pass
Passes(d) ==
  /\ SetWindow(Elapse(Begin("advance"), d))
  /\ UNCHANGED Pure

Advance == Passes(Step)

AdvanceFar == Passes(FarStep)

\* a repeating QTimer that times out is due again an interval after the
\* time it was due, or, if that time has passed as well, an interval after
\* the present; that is set before the slot is called
Rearmed(w, id) ==
  [ w EXCEPT !.timers[id] = IF @ + PollIntervalMs < 0 THEN PollIntervalMs
                            ELSE @ + PollIntervalMs ]

\* a poll QTimer times out: _poll_iteration runs, and what it takes counts
\* against the timer's next interval.  The tick's own fetch is one of F and
\* takes one of the durations D; the refresh of the finish step sees one of
\* F2(fetch).
TickWith(F, D, F2(_)) ==
  \E id \in DOMAIN timers :
    /\ timers[id] <= 0
    /\ \E fetch \in F, d \in D : \E fetch2 \in F2(fetch) :
         \E pick \in Picks(fetch2) :
           SetWindow(_poll_iteration(Rearmed(Begin("tick"), id), fetch, d,
                                     fetch2, pick))
    /\ UNCHANGED Pure

AnyFetch(fetch) == Fetches
SameFetch(fetch) == { fetch }

PollTick == TickWith(Fetches, { n * Step : n \in 0..MaxFetchSteps }, AnyFetch)

\* the user can act on a widget or a menu item only while it is enabled
ToggleWith(F) ==
  /\ WindowTakesInput
  /\ toggle.enabled
  /\ \E fetch \in F :
       SetWindow(_handle_toggle_connection(Begin("toggle"), fetch))
  /\ UNCHANGED Pure

ClickToggle == ToggleWith(Fetches)

\* the tray menu is no widget of the window: an open warning box does not
\* keep the user from it
TrayConnectWith(F) ==
  /\ tray_menu.connect
  /\ \E fetch \in F :
       SetWindow(_on_tray_connect(Begin("tray_connect"), fetch))
  /\ UNCHANGED Pure

TrayDisconnectWith(F) ==
  /\ tray_menu.disconnect
  /\ \E fetch \in F :
       SetWindow(_on_tray_disconnect(Begin("tray_disconnect"), fetch))
  /\ UNCHANGED Pure

ClickApply ==
  /\ WindowTakesInput
  /\ exit_controls.apply
  /\ SetWindow(_on_exit_apply(Begin("apply")))
  /\ UNCHANGED Pure

ToggleCheckbox ==
  /\ WindowTakesInput
  /\ exit_controls.checkbox
  /\ SetWindow(_on_exit_toggle_checkbox(Begin("checkbox"), ~exit_checked))
  /\ UNCHANGED Pure

SelectExitNode ==
  /\ WindowTakesInput
  /\ exit_controls.combo
  /\ \E i \in 0..(Len(combo_items) - 1) :
       /\ i # combo_index
       /\ SetWindow(_on_exit_selection_changed(Begin("select"), i))
  /\ UNCHANGED Pure

\* the refresh button is clicked
ClickRefreshWith(F) ==
  /\ WindowTakesInput
  /\ \E fetch \in F : \E pick \in Picks(fetch) :
       SetWindow(_manual_refresh(Begin("manual_refresh"), fetch, pick))
  /\ UNCHANGED Pure

\* self.timer (REFRESH_MS) times out
RefreshWith(F) ==
  /\ \E fetch \in F : \E pick \in Picks(fetch) :
       SetWindow(refresh_status(Begin("periodic_refresh"), fetch, pick))
  /\ UNCHANGED Pure

PeriodicRefresh == RefreshWith(Fetches)

\* a pool thread runs the worker id to its end
RunOf(id) ==
  /\ id \in DOMAIN workers
  /\ ~workers[id].ran
  /\ \E outcome \in TaskOutcomes(workers[id]) :
       SetWindow(RunWorker(Begin("worker"), id, outcome))
  /\ UNCHANGED Pure

WorkerRuns == \E id \in DOMAIN workers : RunOf(id)

\* the loop delivers a queued signal of the worker id; the refresh a
\* callback makes sees one of F
DeliverOf(id, F) ==
  /\ \E s \in signals :
       /\ s.worker = id
       /\ \E fetch \in F : \E pick \in Picks(fetch) :
            SetWindow(DeliverSignal(Begin("deliver"), s, fetch, pick))
  /\ UNCHANGED Pure

Deliver == \E id \in DOMAIN workers : DeliverOf(id, Fetches)

\* the user closes the warning box on top; the refresh the waiting handler
\* goes on with sees one of F
CloseBoxWith(F) ==
  /\ boxes # << >>
  /\ \E fetch \in F : \E pick \in Picks(fetch) :
       SetWindow(BoxClosed(Begin("close_box"), fetch, pick))
  /\ UNCHANGED Pure

CloseBox == CloseBoxWith(Fetches)

\* The tray menu is no widget of the window: it can be used while a
\* warning box is open, so a transition can be started, fail and open its
\* box above the one that is open, to any depth.  Of the open boxes the
\* newest MaxBoxes are followed as they are.  The older ones are followed as
\* one, OlderBoxes: each of them is the box of a handler that has nothing
\* left to do but _cleanup, and the workers that wait for that are followed
\* no further.
MaxBoxes == 2

OlderBoxes == [ then |-> "older", worker |-> << >> ]

Shallow == Len(boxes) <= MaxBoxes

Forgetful(w) ==
  LET n == Len(w.boxes)
      gone == { w.boxes[i].worker[1] :
                  i \in { k \in 1..(n - MaxBoxes + 1) : w.boxes[k].worker # << >> } }
  IN IF n <= MaxBoxes THEN w
     ELSE [ w EXCEPT !.boxes = << OlderBoxes >> \o SubSeq(@, n - MaxBoxes + 2, n),
                     !.workers = [ id \in DOMAIN @ \ gone |-> @[id] ] ]

\* more than MaxBoxes boxes are open: the oldest are followed as one from
\* here on.  Nothing happens in the program; this is taken before its next
\* step.
Forget ==
  /\ ~Shallow
  /\ SetWindow(Forgetful(Begin("forget")))
  /\ UNCHANGED Pure

\* the user closes one of the older boxes and another of them comes to the
\* top (when it was the last of them, CloseBox describes the step)
CloseOlderBox ==
  /\ boxes # << >>
  /\ boxes[Len(boxes)] = OlderBoxes
  /\ SetWindow(Begin("close_box"))
  /\ UNCHANGED Pure

\* The connect / disconnect transition as the toggle button starts it: the
\* clock in steps of Step, the poll timer, the periodic refresh, the thread
\* pool and the loop's deliveries.  (The tray's handlers start it through
\* the same start_connection and stop_connection; they are followed in
\* SpecTray.)
NextTransition ==
  \/ Advance
  \/ PollTick
  \/ ClickToggle
  \/ PeriodicRefresh
  \/ WorkerRuns
  \/ Deliver
  \/ CloseBox

SpecTransition == Init /\ [][NextTransition]_vars

\* The disconnect transition alone, polled against every kind of snapshot:
\* the backend stopped with and without addresses, starting, running.
DocStoppedWithIps ==
  [ BackendState |-> StrStopped, Self |-> GuiSelf(<< "100.64.0.1" >>),
    Peer |-> << >>, ExitNodeStatus |-> << >> ]

DisconnectFetches ==
  { FetchError } \cup
  { FetchOk(d) : d \in { DocDown, DocStoppedWithIps, DocStarting, DocUp } }

DisconnectTick ==
  TickWith(DisconnectFetches, { n * Step : n \in 0..MaxFetchSteps }, SameFetch)

\* the toggle clicked while tailscale is connected
DisconnectToggle == ToggleWith({ FetchOk(DocUp) })

NextDisconnect ==
  \/ Advance
  \/ DisconnectTick
  \/ DisconnectToggle
  \/ WorkerRuns
  \/ Deliver
  \/ CloseBox

SpecDisconnect == Init /\ [][NextDisconnect]_vars

\* Where only the order of events matters, time passes in steps of FarStep,
\* a status fetch takes no time and is one of LiveFetches, and the refresh
\* of a finishing tick sees what the tick saw.
LiveFetches == { FetchError, FetchOk(DocDown), FetchOk(DocUpExit) }

LiveTick == TickWith(LiveFetches, { 0 }, SameFetch)

LiveToggle == ToggleWith(LiveFetches)

LiveDeliver == \E id \in DOMAIN workers : DeliverOf(id, LiveFetches)

LiveCloseBox == CloseBoxWith(LiveFetches)

TrayConnect == TrayConnectWith(LiveFetches)

TrayDisconnect == TrayDisconnectWith(LiveFetches)

LiveRefresh == RefreshWith(LiveFetches)

InitTray ==
  /\ \E hasClient \in BOOLEAN, fetch \in LiveFetches :
       \E pick \in Picks(fetch) : IsWindow(Constructed(hasClient, fetch, pick))
  /\ raw = NoRaw
  /\ dev = << >>
  /\ out = NoOut
  /\ fetcher = NoFetcher

\* The transition with the tray menu, which the user reaches whether a
\* warning box is open or not.  While more than MaxBoxes boxes are open the
\* step taken is Forget, after which every step of the program is open
\* again: no behaviour of the program is left out.
NextTray ==
  \/ Forget
  \/ Shallow /\ AdvanceFar
  \/ Shallow /\ LiveTick
  \/ Shallow /\ LiveToggle
  \/ Shallow /\ TrayConnect
  \/ Shallow /\ TrayDisconnect
  \/ Shallow /\ LiveRefresh
  \/ Shallow /\ WorkerRuns
  \/ Shallow /\ LiveDeliver
  \/ Shallow /\ LiveCloseBox
  \/ Shallow /\ CloseOlderBox

SpecTray == InitTray /\ [][NextTray]_vars

\* The poller by itself: _start_poll called at any time, a session running
\* or not, the ticks of the timer, the clock, and the lookups and warning
\* boxes that the finish step leaves.
NextPoller ==
  \/ Forget
  \/ Shallow /\ CallStartPoll
  \/ Shallow /\ AdvanceFar
  \/ Shallow /\ LiveTick
  \/ Shallow /\ WorkerRuns
  \/ Shallow /\ LiveDeliver
  \/ Shallow /\ LiveCloseBox
  \/ Shallow /\ CloseOlderBox

SpecPoller == InitTray /\ [][NextPoller]_vars

\* The transition and the Apply button under the scheduling of the
\* platform.  Fairness is stated for each worker: the workers of a kind are
\* numbered from 1.
\*
\* Apply can be used again before the worker of the last Apply is done with
\* (the callback of a connect that asked for an exit node clears the exit
\* busy flag, see C31), so exit workers can be in flight to any number.  Of
\* them MaxWorkers are followed as they are.  When one more has been
\* submitted, one of them is followed no further: its run is not seen, and
\* its callback becomes a stray callback, which from then on may come at
\* any time and any number of times, and of which nothing is assumed.  The
\* warning box of a stray error callback is not followed either: what the
\* callback does when the box is closed may come at any time as well.
MaxWorkers == 1

WorkerIds == { "ip", "up", "down", "exit" } \X (1..MaxWorkers)

LiveWorkerIds == WorkerIds \cup { << "exit", MaxWorkers + 1 >> }

ExitWorkers == { id \in DOMAIN workers : id[1] = "exit" }

FewWorkers == Cardinality(ExitWorkers) <= MaxWorkers

\* the worker id and its queued signal leave the state
Unfollowed(w, id) ==
  [ w EXCEPT !.workers = Without(@, id),
             !.signals = { s \in @ : s.worker # id },
             !.hist.strays = TRUE ]

\* more than MaxWorkers exit workers are in flight: one is followed no
\* further.  Nothing happens in the program; this is taken before its next
\* step.
Unfollow ==
  /\ ~FewWorkers
  /\ \E id \in ExitWorkers : SetWindow(Unfollowed(Begin("forget"), id))
  /\ UNCHANGED Pure

\* the loop delivers the signal of an exit worker that is followed no
\* further: _on_exit_operation_success, or _on_exit_operation_error up to
\* its warning box (gui.py:963-964)
StrayCallback ==
  /\ hist.strays
  /\ \/ \E fetch \in LiveFetches : \E pick \in Picks(fetch) :
          SetWindow(_on_exit_operation_success(Begin("deliver"), fetch, pick))
     \/ SetWindow([ Begin("deliver") EXCEPT !.exit_busy = FALSE ])
  /\ UNCHANGED Pure

\* the user closes the warning box of a stray error callback:
\* _on_exit_operation_error goes on after its self._error(msg)
StrayBoxClosed ==
  /\ hist.strays
  /\ \E fetch \in LiveFetches : \E pick \in Picks(fetch) :
       SetWindow(ExitErrorRest(Begin("close_box"), fetch, pick))
  /\ UNCHANGED Pure

InitLive ==
  /\ \E fetch \in LiveFetches : \E pick \in Picks(fetch) :
       IsWindow([ Constructed(TRUE, fetch, pick) EXCEPT !.last = Unobserved ])
  /\ raw = NoRaw
  /\ dev = << >>
  /\ out = NoOut
  /\ fetcher = NoFetcher

\* While more than MaxWorkers exit workers are in flight the step taken is
\* Unfollow, after which every step of the program is open again: no
\* behaviour of the program is left out.
NextBusy ==
  \/ Unfollow
  \/ FewWorkers /\ AdvanceFar
  \/ FewWorkers /\ LiveTick
  \/ FewWorkers /\ LiveToggle
  \/ FewWorkers /\ ClickApply
  \/ FewWorkers /\ WorkerRuns
  \/ FewWorkers /\ LiveDeliver
  \/ FewWorkers /\ LiveCloseBox
  \/ FewWorkers /\ StrayCallback
  \/ FewWorkers /\ StrayBoxClosed

\* What the code leaves to the platform, which the formula assumes of it:
\*   WF(AdvanceFar)  time passes;
\*   WF(LiveTick)    the poll QTimer is a repeating timer started by
\*                   _start_poll (gui.py:621-625): once due it stays due
\*                   until the loop calls _poll_iteration, and the loop
\*                   runs on inside a warning box (QMessageBox.warning,
\*                   gui.py:972, runs a loop of its own);
\*   WF(RunOf(id))   self._thread_pool.start(worker) (gui.py:154): a
\*                   started worker stays runnable until a pool thread has
\*                   run it, and the client's commands return or raise;
\*   WF(DeliverOf)   the signal that Worker.run emits (gui.py:55-63) is
\*                   queued for the window's thread and stays queued until
\*                   the loop calls the connected slot (gui.py:152-153).
\* Each of these steps, once enabled, stays enabled until it is taken, so
\* weak fairness is what "the worker completes and the ticks keep firing"
\* comes to.  Nothing is assumed of the user: no click and no closing of a
\* box is fair.  Nor is a stray callback: the flags are to be cleared by
\* the workers that are followed.
LiveSpec ==
  /\ InitLive
  /\ [][NextBusy]_vars
  /\ WF_vars(AdvanceFar)
  /\ WF_vars(LiveTick)
  /\ \A id \in LiveWorkerIds :
       WF_vars(RunOf(id)) /\ WF_vars(DeliverOf(id, LiveFetches))

\* The exit-node controls: the checkbox, the list, Apply, the refreshes
\* and the workers, while no connect / disconnect transition runs.
ExitFetches ==
  { FetchError } \cup
  { FetchOk(d) : d \in { DocDown, DocNamed, DocTwo, DocUpExit, DocShared,
                         DocForeign, DocGhost } }

ExitRefresh ==
  /\ \E fetch \in ExitFetches : \E pick \in Picks(fetch) :
       SetWindow(refresh_status(Begin("periodic_refresh"), fetch, pick))
  /\ UNCHANGED Pure

ExitDeliver == \E id \in DOMAIN workers : DeliverOf(id, ExitFetches)

ExitCloseBox == CloseBoxWith(ExitFetches)

InitExit ==
  /\ \E fetch \in ExitFetches : \E pick \in Picks(fetch) :
       IsWindow(Constructed(TRUE, fetch, pick))
  /\ raw = NoRaw
  /\ dev = << >>
  /\ out = NoOut
  /\ fetcher = NoFetcher

NextExit ==
  \/ ToggleCheckbox
  \/ SelectExitNode
  \/ ClickApply
  \/ ExitRefresh
  \/ WorkerRuns
  \/ ExitDeliver
  \/ ExitCloseBox

SpecExit == InitExit /\ [][NextExit]_vars

\* the exit-node controls with the history of the user's choice
InitExitChoice ==
  /\ \E fetch \in ExitFetches : \E pick \in Picks(fetch) :
       IsWindow([ Constructed(TRUE, fetch, pick) EXCEPT
                    !.hist.choice.followed = TRUE ])
  /\ raw = NoRaw
  /\ dev = << >>
  /\ out = NoOut
  /\ fetcher = NoFetcher

SpecExitChoice == InitExitChoice /\ [][NextExit]_vars

\* a window without client, beside which the pure functions are applied
InitIdle == IsWindow(Constructed(FALSE, FetchError, None))

InitStatus ==
  /\ InitIdle
  /\ raw \in RawInputs
  /\ dev = << >>
  /\ out = NoOut
  /\ fetcher = NoFetcher

NextStatus == ApplyStatus

SpecStatus == InitStatus /\ [][NextStatus]_vars

InitDevice ==
  /\ InitIdle
  /\ raw = NoRaw
  /\ dev \in { << >> } \cup { << d >> : d \in DeviceInputs }
  /\ out = NoOut
  /\ fetcher = NoFetcher

NextDevice ==
  \/ ApplyPreferred
  \/ ApplyAliases

SpecDevice == InitDevice /\ [][NextDevice]_vars

\* The alias map built from a list of eligible devices.  The devices of the
\* lists share names, ids and addresses, so that two of them can own the
\* same alias; some have no identifier at all.
MaxEligible == 2

EligibleDevices ==
  { d \in DeviceInputs :
      /\ d.tailnet_ips \in { << >>, << "100.64.0.2" >> }
      /\ d.hostinfo.DNSName = None }

RECURSIVE ListsOf(_, _)
ListsOf(S, n) ==
  IF n = 0 THEN { << >> }
  ELSE { << >> } \cup { << d >> \o l : d \in S, l \in ListsOf(S, n - 1) }

\* the loop of _refresh_exit_nodes over a list of eligible devices (dev)
ApplyAliasMap ==
  /\ out.fn = "none"
  /\ out' = [ fn |-> "alias_map", val |-> AliasMapOf(dev) ]
  /\ UNCHANGED << guiVars, raw, dev, fetcher >>

InitAliasMap ==
  /\ InitIdle
  /\ raw = NoRaw
  /\ dev \in ListsOf(EligibleDevices, MaxEligible)
  /\ out = NoOut
  /\ fetcher = NoFetcher

NextAliasMap == ApplyAliasMap

SpecAliasMap == InitAliasMap /\ [][NextAliasMap]_vars

\* ---- the active exit node of a snapshot (src/tailscale_client.py) ----

\* st = self.status(); its active exit node's name, else the name of the
\* first device flagged, else None
current_exit_node(data) ==
  LET st == status(data)
  IN IF st.active_exit_node # << >> THEN st.active_exit_node[1].name
     ELSE IF FirstFlagged(st.devices) # 0
     THEN st.devices[FirstFlagged(st.devices)].name
     ELSE None

\* documents whose ExitNodeStatus names a peer, the device itself, an
\* unknown id or nothing, with Active true, false or absent, and whose
\* peers are flagged as exit node or not
PeerFlagged(isExit) ==
  << "peer2", RawPeer("n2", "workstation", None, << "100.64.0.3" >>,
                      FALSE, isExit) >>

ActiveInputs ==
  [ BackendState : { StrRunning },
    Self : { << >>,
             << RawPeer("self-id", "myhost", None, << "100.64.0.1" >>, FALSE, FALSE) >> },
    Peer : { << >> } \cup
           { << PeerExit(a), PeerFlagged(b) >> : a \in BOOLEAN, b \in BOOLEAN },
    ExitNodeStatus :
      { << >> } \cup
      { << [ Active |-> a, ID |-> id ] >> :
          a \in { "true", "false", None },
          id \in { "peer1", "n2", "self-id", "ghost", None } } ]

ApplyCurrentExitNode ==
  /\ out.fn = "none"
  /\ out' = [ fn |-> "current_exit_node", val |-> current_exit_node(raw) ]
  /\ UNCHANGED << guiVars, raw, dev, fetcher >>

InitActive ==
  /\ InitIdle
  /\ raw \in ActiveInputs
  /\ dev = << >>
  /\ out = NoOut
  /\ fetcher = NoFetcher

NextActive ==
  \/ ApplyStatus
  \/ ApplyCurrentExitNode

SpecActive == InitActive /\ [][NextActive]_vars

\* ---- PublicIPFetcher.get_public_ip (src/ip_info.py) ----

Idle == UNCHANGED << guiVars, raw, dev, out >>

CallGetPublicIp ==
  \E t \in Callers, force \in BOOLEAN :
    /\ fetcher.calls[t].pc = "idle"
    /\ fetcher' = Enter(fetcher, t, force)
    /\ Idle

AcquireLock ==
  \E t \in Callers :
    /\ fetcher.calls[t].pc = "lock"
    /\ LockFree(fetcher)
    /\ fetcher' = Acquire(fetcher, t)
    /\ Idle

CheckCache ==
  \E t \in Callers :
    /\ fetcher.calls[t].pc = "check"
    /\ fetcher' = Check(fetcher, t)
    /\ Idle

ContactEndpoint ==
  \E t \in Callers :
    /\ fetcher.calls[t].pc = "fetch"
    /\ \E r \in Responses(fetcher.calls[t].url) :
         fetcher' = Contact(fetcher, t, r)
    /\ Idle

AssignCache ==
  \E t \in Callers :
    /\ fetcher.calls[t].pc = "store"
    /\ fetcher' = StoreCache(fetcher, t)
    /\ Idle

AssignCacheTime ==
  \E t \in Callers :
    /\ fetcher.calls[t].pc = "stamp"
    /\ fetcher' = StoreTime(fetcher, t)
    /\ Idle

ReturnInfo ==
  \E t \in Callers :
    /\ fetcher.calls[t].pc = "return"
    /\ fetcher' = Return(fetcher, t)
    /\ Idle

ClockTick ==
  /\ fetcher.time + ClockStepS <= ClockCapS
  /\ fetcher' = [ fetcher EXCEPT !.time = @ + ClockStepS ]
  /\ Idle

InitFetcher ==
  /\ InitIdle
  /\ raw = NoRaw
  /\ dev = << >>
  /\ out = NoOut
  /\ fetcher = NoFetcher

NextFetcher ==
  \/ CallGetPublicIp
  \/ AcquireLock
  \/ CheckCache
  \/ ContactEndpoint
  \/ AssignCache
  \/ AssignCacheTime
  \/ ReturnInfo
  \/ ClockTick

SpecFetcher == InitFetcher /\ [][NextFetcher]_vars

\* ---- TailscaleClient.set_exit_node (src/tailscale_client.py) ----

\* messages are sequences of characters
Contains(s, token) ==
  \E i \in 1..(Len(s) - Len(token) + 1) : SubSeq(s, i, i + Len(token) - 1) = token

Blank == { " ", "\n", "\t" }

\* str.strip()
RECURSIVE Strip(_)
Strip(s) ==
  IF s = << >> THEN s
  ELSE IF s[1] \in Blank THEN Strip(Tail(s))
  ELSE IF s[Len(s)] \in Blank THEN Strip(SubSeq(s, 1, Len(s) - 1))
  ELSE s

\* a or b or c on strings: the first that is not empty, else the last
FirstNonEmpty(a, b, c) == IF a # << >> THEN a ELSE IF b # << >> THEN b ELSE c

SudoTokens ==
  { << "p", "e", "r", "m", "i", "s", "s", "i", "o", "n", " ", "d", "e", "n", "i", "e", "d" >>,
    << "m", "u", "s", "t", " ", "b", "e", " ", "r", "o", "o", "t" >>,
    << "r", "e", "q", "u", "i", "r", "e", "s", " ", "r", "o", "o", "t" >>,
    << "r", "e", "q", "u", "i", "r", "e", "s", " ", "s", "u", "d", "o" >>,
    << "s", "u", "d", "o" >>,
    << "o", "p", "e", "r", "a", "t", "i", "o", "n", " ", "n", "o", "t", " ", "p", "e", "r", "m", "i", "t", "t", "e", "d" >> }

\* (the variant C23 is distinguished from: a timeout is retried as well)
RetryEvenOnTimeout(exit_code, message) ==
  exit_code # 0 /\ \E token \in SudoTokens : Contains(Lower(message), token)

_should_retry_with_sudo(exit_code, message) ==
  IF exit_code \in { 0, 124 } THEN FALSE
  ELSE \E token \in SudoTokens : Contains(Lower(message), token)

\* the last argument is the f-string '--exit-node={exit_node}', kept as its
\* two parts
base_cmd(executable, exit_node) ==
  IF Truthy(exit_node)
  THEN << executable, "set", "--accept-routes=true", << "--exit-node=", exit_node >> >>
  ELSE << executable, "set", "--accept-routes=false", << "--exit-node=", "" >> >>

\* first, second: what _run returns for the first and for the second
\* command run; sudo_path: what _which('sudo') returns.  The result: the
\* commands run, in order, and how the call ended.
set_exit_node(executable, exit_node, allow_sudo, sudo_path, first, second) ==
  LET cmd == base_cmd(executable, exit_node)
      combined == Strip(FirstNonEmpty(first.err, first.out, << >>))
  IN IF first.code = 0
     THEN [ calls |-> << cmd >>, raised |-> "none", detail |-> << >> ]
     ELSE IF /\ allow_sudo
             /\ _should_retry_with_sudo(first.code, combined)
             /\ Truthy(sudo_path)
     THEN IF second.code = 0
          THEN [ calls |-> << cmd, << sudo_path >> \o cmd >>, raised |-> "none",
                 detail |-> << >> ]
          ELSE [ calls |-> << cmd, << sudo_path >> \o cmd >>,
                 raised |-> "TailscaleError",
                 detail |-> Strip(FirstNonEmpty(second.err, second.out, combined)) ]
     ELSE [ calls |-> << cmd >>, raised |-> "TailscaleError", detail |-> combined ]

\* what the commands can print
MsgPermission == << "P", "e", "r", "m", "i", "s", "s", "i", "o", "n", " ", "d", "e", "n", "i", "e", "d", "\n" >>
MsgNoNode     == << "n", "o", " ", "s", "u", "c", "h", " ", "n", "o", "d", "e" >>
MsgSudoHint   == << "t", "r", "y", " ", "S", "U", "D", "O" >>

RunResults ==
  { [ code |-> c, out |-> o, err |-> e ] :
      c \in { 0, 1, 124 }, o \in { << >>, MsgSudoHint },
      e \in { << >>, MsgPermission, MsgNoNode } }

ExitCalls ==
  { [ exit_node |-> n, allow_sudo |-> a, sudo_path |-> p, first |-> f,
      second |-> g ] :
      n \in { None, "", "exitnode" }, a \in BOOLEAN,
      p \in { None, "/usr/bin/sudo" }, f \in RunResults, g \in RunResults }

ApplySetExitNode ==
  /\ out.fn = "none"
  /\ out' = [ fn |-> "set_exit_node",
              val |-> set_exit_node("/usr/bin/tailscale", raw.exit_node,
                                    raw.allow_sudo, raw.sudo_path, raw.first,
                                    raw.second) ]
  /\ UNCHANGED << guiVars, raw, dev, fetcher >>

InitSetExitNode ==
  /\ InitIdle
  /\ raw \in ExitCalls
  /\ dev = << >>
  /\ out = NoOut
  /\ fetcher = NoFetcher

NextSetExitNode == ApplySetExitNode

SpecSetExitNode == InitSetExitNode /\ [][NextSetExitNode]_vars

\* ---- the interaction debouncer ----

DebounceFetches == { FetchError, FetchOk(DocDown) }

\* a qualifying user event reaches eventFilter
Notify ==
  /\ WindowTakesInput
  /\ SetWindow(eventFilter(Begin("event")))
  /\ UNCHANGED Pure

\* the interaction timer times out
InteractionTimeout ==
  /\ interaction.timer = 0
  /\ \E fetch \in DebounceFetches : \E pick \in Picks(fetch) :
       SetWindow(_interaction_refresh(Begin("interaction"), fetch, pick))
  /\ UNCHANGED Pure

\* a refresh of another origin: self.timer times out.  (It does so every
\* REFRESH_MS from the start of the window, a time the debouncer's clocks
\* do not keep: the step is followed at any time.)
DebounceRefresh ==
  /\ \E fetch \in DebounceFetches : \E pick \in Picks(fetch) :
       SetWindow(refresh_status(Begin("periodic_refresh"), fetch, pick))
  /\ UNCHANGED Pure

\* a refresh of another origin: the refresh button
DebounceClick == ClickRefreshWith(DebounceFetches)

DebouncePasses == Passes(DebounceStep)

DebounceDeliver == \E id \in DOMAIN workers : DeliverOf(id, DebounceFetches)

InitDebounce ==
  /\ \E fetch \in DebounceFetches : \E pick \in Picks(fetch) :
       IsWindow([ Constructed(TRUE, fetch, pick) EXCEPT
                    !.interaction.events = TRUE ])
  /\ raw = NoRaw
  /\ dev = << >>
  /\ out = NoOut
  /\ fetcher = NoFetcher

NextDebounce ==
  \/ Notify
  \/ InteractionTimeout
  \/ DebounceRefresh
  \/ DebounceClick
  \/ DebouncePasses
  \/ WorkerRuns
  \/ DebounceDeliver

SpecDebounce == InitDebounce /\ [][NextDebounce]_vars

\* The debouncer with no other refresh source: no periodic refresh and no
\* refresh button.  Qt fires a due timer, time passes, the pool runs every
\* worker and the loop delivers its signal.
NextQuiet ==
  \/ Notify
  \/ InteractionTimeout
  \/ DebouncePasses
  \/ WorkerRuns
  \/ DebounceDeliver

LiveDebounce ==
  /\ InitDebounce
  /\ [][NextQuiet]_vars
  /\ WF_vars(DebouncePasses)
  /\ WF_vars(InteractionTimeout)
  /\ \A id \in WorkerIds :
       WF_vars(RunOf(id)) /\ WF_vars(DeliverOf(id, DebounceFetches))

\* ---- the exit-node checkbox logic of test_exit_node_fix.py ----

\* MockComboBox: items holds the data of each item, current_index the
\* current item (-1: none)
Mock_count(combo) == Len(combo.items)

Mock_itemData(combo, index) ==
  IF 0 <= index /\ index < Len(combo.items) THEN combo.items[index + 1]
  ELSE None

Mock_currentData(combo) == Mock_itemData(combo, combo.current_index)

Mock_setCurrentIndex(combo, index) ==
  [ combo EXCEPT !.current_index =
      IF 0 <= index /\ index < Len(combo.items) THEN index ELSE -1 ]

\* if self.last_exit_node_choice: the first item whose data is the last
\* choice is made current
RestoreLastChoice(t) ==
  LET hit == { i \in 0..(Mock_count(t.combo) - 1) :
                 Mock_itemData(t.combo, i) = t.last_exit_node_choice }
  IN IF Truthy(t.last_exit_node_choice) /\ hit # {}
     THEN [ t EXCEPT !.combo =
              Mock_setCurrentIndex(@, CHOOSE i \in hit : \A j \in hit : i <= j) ]
     ELSE t

\* if node_to_set is None: the last choice, else the first item
SelectFallback(t) ==
  IF Mock_currentData(t.combo) # None THEN t
  ELSE LET r == RestoreLastChoice(t)
       IN IF ~Truthy(Mock_currentData(r.combo)) /\ Mock_count(r.combo) > 0
          THEN [ r EXCEPT !.combo = Mock_setCurrentIndex(@, 0) ]
          ELSE r

Command(name, node) == [ command |-> name, node |-> node ]

\* (the variant C16 is distinguished from: an empty list is refused with no
\* message)
RefusedSilently(t) == [ t EXCEPT !.result = Command("uncheck_no_nodes", None) ]

\* if self.combo.count() == 0: the status bar message, nothing else
RefuseNoNodes(t) ==
  [ t EXCEPT !.shown = Append(@, "Brak dostepnych exit node"),
             !.result = Command("uncheck_no_nodes", None) ]

\* t: the fixture (combo, last_exit_node_choice, the messages shown on the
\* status bar); result: the value returned, "set_exit_node:<node>" as the
\* command and its node
simulate_exit_use_changed(t, state_checked) ==
  IF ~state_checked THEN [ t EXCEPT !.result = Command("disable_exit_node", None) ]
  ELSE IF Mock_count(t.combo) = 0 THEN RefuseNoNodes(t)
  ELSE LET s == SelectFallback(t)
           node_to_set == Mock_currentData(s.combo)
       IN IF ~Truthy(node_to_set)
          THEN [ s EXCEPT !.shown = Append(@, "Nie mozna wybrac exit node z listy"),
                          !.result = Command("uncheck_cant_select", None) ]
          ELSE [ s EXCEPT !.last_exit_node_choice = node_to_set,
                          !.result = Command("set_exit_node", node_to_set) ]

\* the fixtures of the tests: up to MaxItems items whose data are node
\* names, any current index, and a last choice that is none, a listed name
\* or a name no list has
MaxItems == 2

NodeNames == { "nodeA", "nodeB", "nodeC" }

Fixtures ==
  { [ combo |-> [ items |-> items, current_index |-> i ],
      last_exit_node_choice |-> c, shown |-> << >>, result |-> << >>,
      state_checked |-> b ] :
      items \in ListsOf(NodeNames, MaxItems), i \in -1..(MaxItems - 1),
      c \in NodeNames \cup { None, "nodeZ" }, b \in BOOLEAN }

ApplyExitUse ==
  /\ out.fn = "none"
  /\ out' = [ fn |-> "exit_use",
              val |-> simulate_exit_use_changed(raw, raw.state_checked) ]
  /\ UNCHANGED << guiVars, raw, dev, fetcher >>

InitExitUse ==
  /\ InitIdle
  /\ raw \in { t \in Fixtures : t.combo.current_index < Len(t.combo.items) }
  /\ dev = << >>
  /\ out = NoOut
  /\ fetcher = NoFetcher

NextExitUse == ApplyExitUse

SpecExitUse == InitExitUse /\ [][NextExitUse]_vars

TypeOK ==
  /\ client \in BOOLEAN /\ busy_toggle \in BOOLEAN /\ exit_busy \in BOOLEAN
  /\ poll_target \in { << >>, << TRUE >>, << FALSE >> }
  /\ since_poll_started \in 0..ClockCap
  /\ combo_index \in -1..(Len(combo_items) - 1)

-----------------------------------------------------------------------------
(* Properties *)

\* C1: in every snapshot status() returns, connected is true exactly when
\* the backend state is the running label (in any letter case) and the
\* document has a self device with at least one tailnet address
C1_ConnectedIsDerived ==
  out.fn = "status" =>
    ( out.val.connected <=>
        ( /\ raw.BackendState \in RunningSpellings
          /\ raw.Self # << >>
          /\ Len(raw.Self[1].TailscaleIPs) > 0 ) )

C1_Witness ==
  /\ out.fn = "status"
  /\ out.val.connected
  /\ raw.BackendState = StrRUNNING
  /\ Len(raw.Self[1].TailscaleIPs) = 1

\* the present values of a device in the order of priority
PriorityList(d) ==
  SelectSeq(<< d.hostinfo.Hostname, d.hostinfo.DNSName, d.name >>
              \o d.tailnet_ips \o << d.device_id >>,
            Truthy)

\* C9: _preferred_exit_node_argument returns the first present value in
\* the order Hostname, DNSName, name, first non-empty address, id, and
\* None only when none of them is present
C9_PreferredByPriority ==
  out.fn = "preferred" =>
    out.val = IF PriorityList(dev[1]) = << >> THEN None
              ELSE PriorityList(dev[1])[1]

C9_Witness ==
  /\ out.fn = "preferred"
  /\ dev[1].hostinfo.Hostname = "h"
  /\ dev[1].name = "n"
  /\ out.val = "h"

\* C10: _exit_aliases_for_device returns exactly the present values among
\* name, id, the addresses, Hostname and DNSName, and the empty set for no
\* device
C10_AliasesExact ==
  out.fn = "aliases" =>
    IF dev = << >> THEN out.val = {}
    ELSE \A v \in { "", None, "n", "h", "d", "d1" } \cup Range(AddressPool)
                  \cup UNION { Range(l) : l \in IpLists } \cup out.val :
           v \in out.val <=>
             /\ v # "" /\ v # None
             /\ \/ v = dev[1].name
                \/ v = dev[1].device_id
                \/ \E i \in 1..Len(dev[1].tailnet_ips) : v = dev[1].tailnet_ips[i]
                \/ v = dev[1].hostinfo.Hostname
                \/ v = dev[1].hostinfo.DNSName

C10_Witness ==
  /\ out.fn = "aliases"
  /\ dev # << >>
  /\ dev[1].tailnet_ips = << "100.64.0.2" >>
  /\ out.val = { "n", "100.64.0.2", "d1", "h", "d" }

\* the eligible devices of the list dev that have a command value and own
\* the alias a, by their place in the list
Owners(a) ==
  { i \in 1..Len(dev) :
      /\ Truthy(_preferred_exit_node_argument(dev[i]))
      /\ a \in _exit_aliases_for_device(<< dev[i] >>) }

\* C19: every alias of an eligible device that has a command value is
\* mapped, and an alias shared by two eligible devices maps to the command
\* value of the one that comes first in the list
C19_FirstWriterWins ==
  out.fn = "alias_map" =>
    /\ DOMAIN out.val =
         UNION { _exit_aliases_for_device(<< dev[i] >>) :
                   i \in { k \in 1..Len(dev) :
                             Truthy(_preferred_exit_node_argument(dev[k])) } }
    /\ \A a \in DOMAIN out.val :
         \A i \in Owners(a) :
           (\A j \in Owners(a) : i <= j) =>
             out.val[a] = _preferred_exit_node_argument(dev[i])

\* the snapshot the step just taken refreshed from has an active exit
\* device (ActiveSeen), whose aliases the alias map maps to MappedOfActive
ActiveSeen == last.active # << >>

MappedOfActive ==
  { exit_alias_map[a] :
      a \in _exit_aliases_for_device(last.active) \cap DOMAIN exit_alias_map }

\* an enable request for X has succeeded and its callback has refreshed
\* from a snapshot whose active exit device has X among its aliases and
\* another preferred argument
EnableConfirmedByAlias ==
  /\ last.delivered # << >>
  /\ last.delivered[1].kind = "exit"
  /\ last.delivered[1].sig = "finished"
  /\ Truthy(last.delivered[1].arg)
  /\ ActiveSeen
  /\ last.delivered[1].arg \in _exit_aliases_for_device(last.active)
  /\ _preferred_exit_node_argument(last.active[1]) # last.delivered[1].arg

\* C11: reconciliation then resolves the active device to X and shows the
\* exit node as in use
C11_ResolvesToTarget ==
  EnableConfirmedByAlias =>
    /\ exit_active_value = last.delivered[1].arg
    /\ exit_checked

\* C20 (as claimed): when the alias map knows none of the aliases of the
\* snapshot's active exit device, the active value is the device's own
\* preferred argument
C20_FallsBackToPreferred ==
  (ActiveSeen /\ MappedOfActive = {}) =>
    exit_active_value = _preferred_exit_node_argument(last.active[1])

\* C20 (amended): when the alias map knows none of the aliases of the
\* snapshot's active exit device, there is no active value and the
\* checkbox is unchecked: the device's preferred argument would be taken
\* only if it were an entry of the list, and then the map would know it
C20_NoFallbackOutsideList ==
  (ActiveSeen /\ MappedOfActive = {}) =>
    /\ exit_active_value = None
    /\ ~exit_checked
    /\ _preferred_exit_node_argument(last.active[1]) \notin exit_entries

C20_Witness ==
  /\ ActiveSeen
  /\ MappedOfActive = {}
  /\ _preferred_exit_node_argument(last.active[1]) = "relay"
  /\ exit_active_value = None
  /\ exit_has_nodes

\* C17 (as claimed): while a request is in flight (its callback not yet
\* invoked) the checkbox shows what the request asks for
C17_CheckboxKeepsRequest ==
  \A id \in DOMAIN workers :
    (workers[id].kind = "exit" /\ workers[id].calls = 0)
      => (exit_checked <=> Truthy(workers[id].arg))

\* C18: from the dispatch of an exit-node request until its callback has
\* fired the exit-node controls are busy (so that Apply dispatches nothing)
C18_BusyUntilCallback ==
  \A id \in DOMAIN workers :
    (workers[id].kind = "exit" /\ workers[id].calls = 0) => exit_busy

\* the checkbox logic has run on a fixture with the box checked
ExitUseRan == out.fn = "exit_use" /\ raw.state_checked

\* the entry C15 names: the one the user selected, else the target last
\* applied with success if it is listed, else the first of the list
ChosenEntry ==
  IF hist.choice.explicit THEN currentData(Window)
  ELSE IF hist.choice.applied \in Range(combo_items) THEN hist.choice.applied
  ELSE combo_items[1]

\* C15: Apply with the box checked and a list that is not empty submits
\* the command for the entry the user selected, else for the target last
\* applied with success if it is still listed, else for the first entry,
\* and that entry is then the one selected
C15_AppliedByFallbackOrder ==
  [][ ( /\ last'.by = "apply" /\ last'.submitted = << "exit" >>
        /\ exit_checked /\ combo_items # << >> ) =>
        /\ \A id \in DOMAIN workers' \ DOMAIN workers :
             workers'[id].arg = ChosenEntry
        /\ combo_index' >= 0
        /\ combo_items'[combo_index' + 1] = ChosenEntry ]_vars

\* the window's Apply handler run with a client, the box checked and the
\* list empty
AppliedWithNoTarget ==
  _on_exit_apply([ Begin("exit_apply") EXCEPT !.client = TRUE,
                                              !.exit_checked = TRUE ])

\* C16: enabling with an empty list dispatches no set-exit-node command,
\* shows a message, and leaves the selection and the last choice as they
\* were; the window's Apply handler in that situation submits nothing,
\* reports an error and leaves the selection and the busy flags as they were
C16_EmptyListRefused ==
  (ExitUseRan /\ raw.combo.items = << >>) =>
    /\ out.val.result.command # "set_exit_node"
    /\ Len(out.val.shown) = Len(raw.shown) + 1
    /\ out.val.combo = raw.combo
    /\ out.val.last_exit_node_choice = raw.last_exit_node_choice
    /\ combo_items = << >>
    /\ AppliedWithNoTarget.workers = workers
    /\ AppliedWithNoTarget.last.submitted = << >>
    /\ AppliedWithNoTarget.last.errors = << "Wybierz exit node z listy." >>
    /\ AppliedWithNoTarget.combo_index = combo_index
    /\ AppliedWithNoTarget.exit_busy = exit_busy
    /\ AppliedWithNoTarget.busy_toggle = busy_toggle

C16_Witness ==
  /\ ExitUseRan
  /\ raw.combo.items = << >>
  /\ raw.last_exit_node_choice = "nodeC"
  /\ out.val.result = Command("uncheck_no_nodes", None)
  /\ out.val.shown = << "Brak dostepnych exit node" >>

\* the refresh armed by an event is pending and has not been put off
FirstDeadlinePending ==
  interaction.timer >= 0 /\ interaction.deferrals = 0

\* C12: events that arrive while an interaction refresh is pending schedule
\* nothing and do not move its deadline: the timer was started once, and
\* until it times out it is due INTERACTION_DEBOUNCE_MS after the first
\* event, so it fires no earlier than that
C12_PendingNotRescheduled ==
  /\ interaction.starts <= 1
  /\ (interaction.timer >= 0) <=> (interaction.starts = 1)
  /\ FirstDeadlinePending =>
       /\ interaction.timer > 0 =>
            interaction.since_notify + interaction.timer = INTERACTION_DEBOUNCE_MS
       /\ interaction.timer = 0 =>
            interaction.since_notify >= INTERACTION_DEBOUNCE_MS

C12_Witness ==
  /\ FirstDeadlinePending
  /\ interaction.notifies = BurstLen
  /\ interaction.since_notify = DebounceStep
  /\ interaction.starts = 1
  /\ interaction.timer = INTERACTION_DEBOUNCE_MS - DebounceStep

\* C13 (as claimed): after an event the refresh is put off at most once
C13_DeferredAtMostOnce == interaction.deferrals <= 1

\* C13 (amended): every timeout that finds the last completed refresh less
\* than RefreshFloorMs old puts the refresh off by DeferMs and performs
\* nothing, however often that has happened since the event; the timeout
\* that finds it older, or finds none, performs the refresh
C13_DeferredWhileTooSoon ==
  [][ (interaction.timer = 0 /\ interaction'.timer # 0) =>
        IF interaction.since_refresh >= 0
           /\ interaction.since_refresh < RefreshFloorMs
        THEN /\ interaction'.timer = DeferMs
             /\ interaction'.deferrals = Min(interaction.deferrals + 1, DeferralCap)
             /\ interaction'.performed_age = interaction.performed_age
             /\ interaction'.since_refresh = interaction.since_refresh
             /\ workers' = workers
        ELSE /\ interaction'.timer = -1
             /\ interaction'.deferrals = interaction.deferrals
             /\ interaction'.performed_age = interaction.since_refresh ]_vars

C13_Witness ==
  /\ interaction.deferrals = 3
  /\ interaction.performed_age = RefreshFloorMs
  /\ interaction.timer = -1

InteractionPending == interaction.timer >= 0

\* the timer is inactive and the refresh the last arming event asked for
\* has been performed
InteractionPerformed ==
  interaction.timer = -1 /\ interaction.performed_age # -2

\* C36: with no other refresh source, an armed interaction timer leads to
\* the refresh being performed; until then the refresh is put off only a
\* bounded number of times, each deferral having found the last refresh
\* younger than RefreshFloorMs
C36_ArmedTimerLeadsToRefresh ==
  /\ InteractionPending ~> InteractionPerformed
  /\ [] ( interaction.deferrals >= 1 =>
            INTERACTION_DEBOUNCE_MS + (interaction.deferrals - 1) * DeferMs
              < RefreshFloorMs )

C36_Witness ==
  /\ InteractionPerformed
  /\ interaction.deferrals = 2
  /\ interaction.performed_age = RefreshFloorMs
  /\ interaction.notifies >= 2

\* the step just taken delivered the error signal of a connect or
\* disconnect worker
CommandFailed ==
  /\ last.delivered # << >>
  /\ last.delivered[1].kind \in { "up", "down" }
  /\ last.delivered[1].sig = "error"

\* C21: a failed connect or disconnect command ends the transition through
\* the finish step with the command's message as the error shown, and
\* leaves no poll session: no timer, no target, the busy flag cleared
C21_FailedCommandFinishes ==
  CommandFailed =>
    /\ last.finish = << [ error_msg |-> last.delivered[1].msg,
                          status_msg |-> None ] >>
    /\ last.errors = << last.delivered[1].msg >>
    /\ timers = << >>
    /\ poll_timer = NoTimer
    /\ poll_target = << >>
    /\ ~busy_toggle

C21_Witness ==
  /\ CommandFailed
  /\ last.delivered[1].kind = "up"
  /\ last.delivered[1].raised = "TailscaleError"
  /\ last.errors = << "Blad wlaczania tailscale: " >>
  /\ hist.finishes = 1

\* the window as a handler finds it, with no client
Clientless(op) == [ Begin(op) EXCEPT !.client = FALSE ]

\* a tick of the running session that finds no client
ClientlessTick(fetch) ==
  _poll_iteration(Clientless("tick"), fetch, 0, fetch, None)

\* C22: without a client the toggle, the tray actions and Apply leave the
\* window as it is (nothing submitted, no busy flag changed), and the
\* button, the two menu items and Apply are disabled, so a window built
\* without a client never has a command worker, a busy flag or a poll
\* timer; a tick that finds no client finishes the session with the error
\* "Brak klienta"
C22_NoClientNoCommand ==
  /\ \A fetch \in Fetches :
       /\ _handle_toggle_connection(Clientless("toggle"), fetch) = Clientless("toggle")
       /\ _on_tray_connect(Clientless("tray"), fetch) = Clientless("tray")
       /\ _on_tray_disconnect(Clientless("tray"), fetch) = Clientless("tray")
  /\ _on_exit_apply(Clientless("apply")) = Clientless("apply")
  /\ ~client =>
       /\ ~toggle.enabled /\ ~exit_controls.apply
       /\ ~tray_menu.connect /\ ~tray_menu.disconnect
       /\ \A id \in DOMAIN workers : workers[id].kind = "ip"
       /\ ~busy_toggle /\ ~exit_busy
       /\ timers = << >>
  /\ timers # << >> =>
       \A fetch \in Fetches :
         /\ ClientlessTick(fetch).last.finish =
              << [ error_msg |-> "Brak klienta", status_msg |-> None ] >>
         /\ ClientlessTick(fetch).last.errors = << "Brak klienta" >>
         /\ ~ClientlessTick(fetch).last.tick[1].fetched
         /\ ClientlessTick(fetch).timers = << >>
         /\ ClientlessTick(fetch).poll_target = << >>
         /\ ~ClientlessTick(fetch).busy_toggle

\* a window without a client after the address worker of the constructor
\* was done with: a step was taken on it that dispatched nothing, and no
\* control that could dispatch is enabled
C22_Witness ==
  /\ ~client
  /\ ~toggle.enabled
  /\ ~tray_menu.connect /\ ~tray_menu.disconnect
  /\ last = Observed(NoLast("toggle"))
  /\ workers = << >>
  /\ ~public_ip_pending
  /\ ~busy_toggle

\* the first command of a set_exit_node call failed in the way that is
\* retried: a code other than 0 and 124, and a message that names a
\* permission problem
PermissionFailure ==
  /\ raw.first.code \notin { 0, 124 }
  /\ \E token \in SudoTokens :
       Contains(Lower(FirstNonEmpty(raw.first.err, raw.first.out, << >>)), token)

SudoTried == PermissionFailure /\ raw.allow_sudo /\ Truthy(raw.sudo_path)

\* C23: set_exit_node runs the plain command first; it runs a second
\* command, the same one behind sudo, exactly when the first failed with a
\* permission problem, allow_sudo holds and sudo was found; it returns if
\* a command it ran succeeded and raises TailscaleError otherwise
C23_SudoOnlyOnPermission ==
  out.fn = "set_exit_node" =>
    /\ out.val.calls[1] = base_cmd("/usr/bin/tailscale", raw.exit_node)
    /\ Len(out.val.calls) = IF SudoTried THEN 2 ELSE 1
    /\ SudoTried => out.val.calls[2] = << raw.sudo_path >> \o out.val.calls[1]
    /\ out.val.raised \in { "none", "TailscaleError" }
    /\ out.val.raised = "none" <=>
         \/ raw.first.code = 0
         \/ SudoTried /\ raw.second.code = 0

C23_Witness ==
  /\ out.fn = "set_exit_node"
  /\ raw.exit_node = "exitnode"
  /\ raw.first = [ code |-> 1, out |-> << >>, err |-> MsgPermission ]
  /\ raw.second.code = 0
  /\ out.val.raised = "none"
  /\ out.val.calls =
       << << "/usr/bin/tailscale", "set", "--accept-routes=true",
             << "--exit-node=", "exitnode" >> >>,
          << "/usr/bin/sudo", "/usr/bin/tailscale", "set", "--accept-routes=true",
             << "--exit-node=", "exitnode" >> >> >>

\* the devices of the document, as parsed, and the id its ExitNodeStatus
\* names
ParsedDevices == SelfDevices(raw) \o PeerDevices(raw)

NamedId ==
  IF raw.ExitNodeStatus = << >> THEN None ELSE raw.ExitNodeStatus[1].ID

NamesKnownDevice ==
  Truthy(NamedId) /\ \E i \in 1..Len(ParsedDevices) : ParsedDevices[i].device_id = NamedId

MarkedInactive ==
  raw.ExitNodeStatus # << >> /\ raw.ExitNodeStatus[1].Active = "false"

\* the snapshot's active exit node is the device the status names, flagged
IsNamedDevice(st) ==
  /\ st.active_exit_node # << >>
  /\ st.active_exit_node[1].device_id = NamedId
  /\ st.active_exit_node[1].is_exit_node
  /\ \E i \in 1..Len(st.devices) : st.devices[i] = st.active_exit_node[1]

\* the snapshot's active exit node is the first device the document flags,
\* or none if it flags none
IsFirstFlagged(st) ==
  IF \E i \in 1..Len(ParsedDevices) : ParsedDevices[i].is_exit_node
  THEN /\ st.active_exit_node # << >>
       /\ \E i \in 1..Len(ParsedDevices) :
            /\ ParsedDevices[i].is_exit_node
            /\ \A j \in 1..(i - 1) : ~ParsedDevices[j].is_exit_node
            /\ st.active_exit_node[1] = ParsedDevices[i]
  ELSE st.active_exit_node = << >>

NameOfActive ==
  IF status(raw).active_exit_node = << >> THEN None
  ELSE status(raw).active_exit_node[1].name

\* C24 (as claimed): when the exit-node status names the id of a known
\* device that device is the active exit node and is flagged; otherwise the
\* first flagged device is; current_exit_node() is the active one's name
C24_NamedDeviceIsActive ==
  /\ out.fn = "status" =>
       IF NamesKnownDevice THEN IsNamedDevice(out.val) ELSE IsFirstFlagged(out.val)
  /\ out.fn = "current_exit_node" => out.val = NameOfActive

\* C24 (amended): as claimed, except that a status marked Active: false
\* names no device
C24_NamedUnlessInactive ==
  /\ out.fn = "status" =>
       IF NamesKnownDevice /\ ~MarkedInactive
       THEN IsNamedDevice(out.val) ELSE IsFirstFlagged(out.val)
  /\ out.fn = "current_exit_node" => out.val = NameOfActive

C24_Witness ==
  /\ out.fn = "status"
  /\ raw.ExitNodeStatus = << [ Active |-> "true", ID |-> "n2" ] >>
  /\ raw.Peer = << PeerExit(TRUE), PeerFlagged(FALSE) >>
  /\ out.val.active_exit_node # << >>
  /\ out.val.active_exit_node[1].name = "workstation"
  /\ out.val.active_exit_node[1].is_exit_node

\* a caller is inside the with block of get_public_ip
InSection(t) ==
  fetcher.calls[t].pc \in { "check", "fetch", "store", "stamp", "return" }

\* the cache holds a result no older than the TTL
CacheFresh ==
  fetcher._cache # << >> /\ fetcher.time - fetcher._cache_time < TtlS

\* caller t reads the clock and the cache in this step
Checks(t) ==
  fetcher.calls[t].pc = "check" /\ fetcher'.calls[t].pc # "check"

\* caller t is about to return what the cache held, having contacted nothing
ReturnsCached(t) ==
  /\ fetcher'.calls[t].pc = "return"
  /\ fetcher'.calls[t].log = << >>
  /\ fetcher'.calls[t].info = fetcher._cache
  /\ fetcher'._cache = fetcher._cache

\* C25: a non-forced call that finds a result cached within the TTL returns
\* it without contacting an endpoint; a forced call always goes on to fetch
\* and contacts at least one endpoint before it returns; at most one caller
\* is inside the locked block, so none reads the cache while another
\* replaces it
C25_CachedWithinTtl ==
  /\ [][ \A t \in Callers :
           Checks(t) =>
             /\ (~fetcher.calls[t].force /\ CacheFresh) => ReturnsCached(t)
             /\ fetcher.calls[t].force =>
                  fetcher'.calls[t].pc = "fetch" /\ fetcher'.calls[t].log = << >> ]_vars
  /\ [] \A t \in Callers :
         /\ (fetcher.calls[t].force
              /\ fetcher.calls[t].pc \in { "store", "stamp", "return" })
            => Len(fetcher.calls[t].log) >= 1
         /\ \A u \in Callers \ { t } : ~(InSection(t) /\ InSection(u))

C25_Witness ==
  /\ fetcher.calls[1].pc = "return"
  /\ ~fetcher.calls[1].force
  /\ fetcher.calls[1].log = << >>
  /\ fetcher.calls[1].info = fetcher._cache
  /\ fetcher._cache # << >>
  /\ fetcher.calls[1].now = fetcher._cache_time + ClockStepS
  /\ fetcher.calls[2].pc = "lock"
  /\ fetcher.calls[2].force

\* the call of caller t has left the loop of _fetch
Fetched(t) ==
  /\ fetcher.calls[t].pc \in { "store", "stamp", "return" }
  /\ fetcher.calls[t].log # << >>

\* a logged contact was answered with status 200
Answered200(e) == ~e.r.raises /\ e.r.status_code = 200

\* a logged contact was answered with status 200 and a body that parsed
AnsweredParsed(e) == Answered200(e) /\ e.r.json # << >>

\* the endpoints were contacted in the order of the list, from the first
InListOrder(log) == \A k \in 1..Len(log) : log[k].url = k

\* the first contact of the log that the predicate holds of, 0 if none
FirstWhere(log, k, Good(_)) ==
  IF \E j \in 1..Len(log) : Good(log[j])
  THEN k = CHOOSE j \in 1..Len(log) :
             Good(log[j]) /\ \A i \in 1..(j - 1) : ~Good(log[i])
  ELSE k = 0

\* what C26 says of a finished _fetch, for a notion of a good answer
FirstGoodAnswerWins(c, Good(_)) ==
  /\ InListOrder(c.log)
  /\ \E k \in 0..Len(c.log) :
       /\ FirstWhere(c.log, k, Good)
       /\ IF k = 0
          THEN Len(c.log) = Len(Endpoints) /\ c.info = << >>
          ELSE /\ Len(c.log) = k
               /\ c.info # << >>
               /\ c.log[k].r.json = << c.info[1].raw >>
               /\ c.info[1].ip = IpOf(c.log[k].r.json[1])

\* C26 (as claimed): the endpoints are tried in list order; the result is
\* that of the first endpoint that answers with status 200, none after it
\* is contacted, and the result is none only if every endpoint fails
C26_FirstStatus200Wins ==
  \A t \in Callers :
    Fetched(t) => FirstGoodAnswerWins(fetcher.calls[t], Answered200)

\* C26 (amended): as claimed, with an endpoint that answers 200 with a body
\* that does not parse skipped like one that raises
C26_FirstParsedAnswerWins ==
  \A t \in Callers :
    /\ Fetched(t) => FirstGoodAnswerWins(fetcher.calls[t], AnsweredParsed)
    /\ fetcher.calls[t].pc = "fetch" =>
         /\ InListOrder(fetcher.calls[t].log)
         /\ fetcher.calls[t].url = Len(fetcher.calls[t].log) + 1
         /\ \A k \in 1..Len(fetcher.calls[t].log) :
              ~AnsweredParsed(fetcher.calls[t].log[k])

C26_Witness ==
  /\ fetcher.calls[1].pc = "return"
  /\ Len(fetcher.calls[1].log) = 2
  /\ fetcher.calls[1].log[1].r.raises
  /\ AnsweredParsed(fetcher.calls[1].log[2])
  /\ fetcher.calls[1].info # << >>
  /\ fetcher.calls[1].info[1].ip = "198.51.100.5"

\* the tick the step just taken made, if it was a tick
Ticked == last.tick # << >>
Finished == last.finish # << >>

\* C2: a tick of a session with target true that sees no snapshot with
\* connected = true ends the session exactly when more than 15 s have
\* passed since the session began, and then with the timeout error
C2_ConnectTimesOutAt15s ==
  (Ticked /\ last.tick[1].target = << TRUE >> /\ ~last.tick[1].connected) =>
    /\ Finished <=> last.tick[1].elapsed > PollTimeoutMs
    /\ Finished =>
         /\ last.finish = << [ error_msg |-> MsgTimeout, status_msg |-> None ] >>
         /\ last.errors = << MsgTimeout >>
         /\ ~busy_toggle

C2_Witness ==
  /\ Ticked /\ last.tick[1].target = << TRUE >>
  /\ last.tick[1].elapsed > PollTimeoutMs
  /\ last.finish = << [ error_msg |-> MsgTimeout, status_msg |-> None ] >>

\* a poll session is active: its timer runs and it has a target
SessionActive == timers # << >> /\ poll_target # << >>

\* the tick the running timer would make now if client.status() returned
\* fetch at once
TickNow(fetch) == _poll_iteration(Begin("tick"), fetch, 0, fetch, None)

\* snapshots in which connected is still true of a backend that is not
\* running.  TailscaleClient.status() returns none (C1, C32): they are what
\* the claim's "even if connected has not yet become false" speaks of, and
\* the tick is applied to them as to any value of client.status()
StaleFetches ==
  { [ FetchOk(d) EXCEPT !.st.connected = TRUE ] : d \in { DocDown, DocStoppedWithIps } }

\* C3: a tick of a session with target false whose snapshot shows a
\* backend state other than running, 1.5 s or more after the disconnect
\* began, ends the session with success; and so would the tick of a running
\* session, that long after the disconnect began and before its timeout,
\* on a snapshot of such a backend in which connected is still true
C3_StoppedBackendConverges ==
  /\ ( /\ Ticked /\ last.tick[1].target = << FALSE >>
       /\ last.tick[1].ok /\ ~last.tick[1].running
       /\ last.tick[1].since_down >= DisconnectGraceMs ) =>
       /\ Len(last.finish) = 1
       /\ last.finish[1].error_msg = None
       /\ Truthy(last.finish[1].status_msg)
       /\ last.errors = << >>
       /\ ~busy_toggle
       /\ poll_target = << >>
  /\ ( /\ SessionActive /\ client /\ poll_target = << FALSE >>
       /\ since_down_started >= DisconnectGraceMs
       /\ since_poll_started <= DisconnectTimeoutMs ) =>
       \A fetch \in StaleFetches :
         /\ TickNow(fetch).last.finish =
              << [ error_msg |-> None,
                   status_msg |-> "Rozlaczono (backend zatrzymany)" ] >>
         /\ TickNow(fetch).last.errors = << >>
         /\ TickNow(fetch).timers = << >>
         /\ TickNow(fetch).poll_target = << >>
         /\ ~TickNow(fetch).busy_toggle

\* a disconnect session past its grace period whose last tick saw the
\* backend still running: a tick on a snapshot of a stopped backend with
\* connected still true would end it through the grace branch
C3_Witness ==
  /\ Ticked /\ last.tick[1].target = << FALSE >>
  /\ last.tick[1].ok /\ last.tick[1].running
  /\ last.tick[1].since_down >= DisconnectGraceMs
  /\ last.finish = << >>
  /\ SessionActive /\ client /\ poll_target = << FALSE >>
  /\ since_down_started >= DisconnectGraceMs
  /\ since_poll_started <= DisconnectTimeoutMs
  /\ \A fetch \in StaleFetches :
       TickNow(fetch).last.finish =
         << [ error_msg |-> None,
              status_msg |-> "Rozlaczono (backend zatrzymany)" ] >>

\* one of the convergence conditions holds of what the tick would fetch
Converges(fetch) ==
  IF fetch.ok
  THEN \/ << fetch.st.connected >> = poll_target
       \/ /\ poll_target = << FALSE >>
          /\ since_down_started >= DisconnectGraceMs
          /\ Lower(fetch.st.backend_state) # RunningLabel
  ELSE poll_target = << FALSE >>

\* C27 (as claimed): the timeout is the last condition of a tick: a tick
\* whose snapshot matches the target, or of which another convergence
\* condition holds, ends the session as converged however much time has
\* passed, and the timeout is reported only when none holds
C27_TimeoutAppliedLast ==
  (SessionActive /\ client) =>
    \A fetch \in Fetches :
      Converges(fetch) =>
        /\ Len(TickNow(fetch).last.finish) = 1
        /\ TickNow(fetch).last.finish[1].error_msg = None
        /\ TickNow(fetch).last.errors = << >>

\* C28: a tick of a session with target false that fetches nothing but
\* connected = true ends the session exactly when more than 6 s have passed
\* since it began, and then with the timeout error; the 15 s of the connect
\* direction play no part
C28_DisconnectTimesOutAt6s ==
  ( /\ Ticked /\ last.tick[1].target = << FALSE >>
    /\ last.tick[1].fetched => (last.tick[1].connected /\ last.tick[1].running) ) =>
    /\ Finished <=> last.tick[1].elapsed > DisconnectTimeoutMs
    /\ Finished =>
         /\ last.finish = << [ error_msg |-> MsgTimeout, status_msg |-> None ] >>
         /\ last.errors = << MsgTimeout >>
         /\ timers = << >>
    /\ ~Finished => (timers # << >> /\ poll_target = << FALSE >> /\ busy_toggle)

C28_Witness ==
  /\ Ticked /\ last.tick[1].target = << FALSE >>
  /\ last.tick[1].elapsed > DisconnectTimeoutMs
  /\ last.tick[1].elapsed <= PollTimeoutMs
  /\ hist.session
  /\ last.finish = << [ error_msg |-> MsgTimeout, status_msg |-> None ] >>

\* the tick just made called client.status(), which raised TailscaleError
FetchFailed == Ticked /\ last.tick[1].fetched /\ ~last.tick[1].ok

\* C29: a tick whose status fetch fails ends a disconnect session as
\* converged, with no error shown; in a connect session it changes nothing:
\* no finish, no error, the timer still runs, the target and the busy flag
\* stay
C29_FetchFailureByTarget ==
  FetchFailed =>
    /\ last.errors = << >>
    /\ last.tick[1].target = << FALSE >> =>
         /\ last.finish = << [ error_msg |-> None,
                               status_msg |-> "Rozlaczono (status niedostepny)" ] >>
         /\ timers = << >> /\ poll_target = << >> /\ ~busy_toggle
    /\ last.tick[1].target = << TRUE >> =>
         /\ ~Finished
         /\ timers # << >> /\ poll_target = << TRUE >> /\ busy_toggle
         /\ since_poll_started >= last.tick[1].elapsed

C29_Witness ==
  /\ FetchFailed
  /\ last.tick[1].target = << TRUE >>
  /\ last.tick[1].elapsed > 0
  /\ ~Finished
  /\ SessionActive

\* the workers that run up or down and are in flight: their callback has
\* not been invoked yet
CommandWorkers ==
  { id \in DOMAIN workers :
      workers[id].kind \in { "up", "down" } /\ workers[id].calls = 0 }

\* C30: the busy flag is set whenever an up / down worker is in flight or a
\* poll session is active; while it is set the toggle button and the two
\* tray items are disabled and their handlers leave the window as it is;
\* so there is at most one up / down worker, at most one poll timer, and
\* never a worker beside a session
C30_OneTransitionAtATime ==
  /\ (CommandWorkers # {} \/ SessionActive \/ timers # << >>) => busy_toggle
  /\ busy_toggle =>
       /\ ~toggle.enabled /\ ~tray_menu.connect /\ ~tray_menu.disconnect
       /\ \A fetch \in Fetches :
         /\ _handle_toggle_connection(Begin("toggle"), fetch) = Begin("toggle")
         /\ _on_tray_connect(Begin("tray"), fetch) = Begin("tray")
         /\ _on_tray_disconnect(Begin("tray"), fetch) = Begin("tray")
  /\ Cardinality(CommandWorkers) <= 1
  /\ Cardinality(DOMAIN timers) <= 1
  /\ ~(CommandWorkers # {} /\ timers # << >>)

\* a disconnect has been started from the tray while a warning box was
\* open
C30_Witness ==
  /\ busy_toggle
  /\ last.by = "tray_disconnect"
  /\ last.submitted = << "down" >>
  /\ Cardinality(CommandWorkers) = 1
  /\ boxes # << >>
  /\ ~tray_menu.connect /\ ~tray_menu.disconnect

\* the workers whose task runs client.set_exit_node: those of Apply, and
\* those of a connect with an exit node requested
ExitCommandWorkers ==
  { id \in DOMAIN workers :
      /\ workers[id].calls = 0
      /\ \/ workers[id].kind = "exit"
         \/ workers[id].kind = "up" /\ workers[id].exit_requested }

\* C31 (as claimed): while a worker that runs a set / clear exit-node
\* command is in flight the exit busy flag is set, there is no second such
\* worker, and none of the exit controls is enabled
C31_ExitBusyWhileCommandInFlight ==
  ExitCommandWorkers # {} =>
    /\ exit_busy
    /\ Cardinality(ExitCommandWorkers) = 1
    /\ ~exit_controls.apply /\ ~exit_controls.checkbox /\ ~exit_controls.combo

\* C32: a tick of a disconnect session that fetches a snapshot whose backend
\* is not running ends the session as converged on that tick, before and
\* after the grace period alike, through the branch that compares connected
\* with the target: the grace branch decides no outcome
C32_GraceBranchNeverDecides ==
  /\ ( /\ Ticked /\ last.tick[1].target = << FALSE >>
       /\ last.tick[1].ok /\ ~last.tick[1].running ) =>
       /\ ~last.tick[1].connected
       /\ last.finish = << [ error_msg |-> None, status_msg |-> "Rozlaczono" ] >>
       /\ last.errors = << >>
       /\ timers = << >> /\ poll_target = << >> /\ ~busy_toggle
  /\ \A k \in 1..Len(last.finish) :
       last.finish[k].status_msg # "Rozlaczono (backend zatrzymany)"

C32_Witness ==
  /\ Ticked /\ last.tick[1].target = << FALSE >>
  /\ last.tick[1].ok /\ ~last.tick[1].running
  /\ last.tick[1].since_down < DisconnectGraceMs
  /\ last.finish = << [ error_msg |-> None, status_msg |-> "Rozlaczono" ] >>
  /\ toggle.text = "Polacz"

\* C33 (as claimed): when a transition has finished the toggle is enabled
\* and carries the connect or the disconnect label, the one that matches
\* the state last observed
C33_ToggleSettledAfterFinish ==
  Finished =>
    /\ toggle.enabled
    /\ toggle.text = IF toggle.connected THEN "Rozlacz" ELSE "Polacz"

\* the callback just delivered is that of a connect with an exit node
ConnectWithExitDelivered ==
  /\ last.delivered # << >>
  /\ last.delivered[1].kind = "up"
  /\ Truthy(last.delivered[1].arg)

UpFailed(msg) == msg = "Blad wlaczania tailscale: "

\* C34: the task of a connect with an exit node calls up first and
\* set_exit_node only after up returned; the poll for connected = true
\* starts in the callback of a task that called both and failed in neither,
\* and never while the task is in flight; a failure of either command ends
\* the transition with that failure and leaves no poll session
C34_UpThenExitThenPoll ==
  /\ \A id \in DOMAIN workers :
       (workers[id].kind = "up" /\ workers[id].exit_requested
          /\ workers[id].calls = 0) =>
         /\ workers[id].ran =>
              /\ workers[id].cmds \in { << "up" >>, << "up", "set_exit_node" >> }
              /\ \A sg \in signals :
                   sg.worker = id =>
                     /\ UpFailed(sg.msg) => workers[id].cmds = << "up" >>
                     /\ sg.sig = "finished" =>
                          workers[id].cmds = << "up", "set_exit_node" >>
         /\ timers = << >> /\ poll_target = << >>
  /\ ConnectWithExitDelivered =>
       IF last.delivered[1].sig = "finished"
       THEN /\ last.delivered[1].cmds = << "up", "set_exit_node" >>
            /\ last.delivered[1].raised = "none"
            /\ ~Finished
            /\ timers # << >> /\ poll_target = << TRUE >>
            /\ since_poll_started = 0
       ELSE /\ last.finish = << [ error_msg |-> last.delivered[1].msg,
                                  status_msg |-> None ] >>
            /\ last.errors = << last.delivered[1].msg >>
            /\ timers = << >> /\ poll_target = << >> /\ ~busy_toggle

C34_Witness ==
  /\ ConnectWithExitDelivered
  /\ last.delivered[1].sig = "finished"
  /\ last.delivered[1].cmds = << "up", "set_exit_node" >>
  /\ poll_target = << TRUE >>
  /\ timers # << >>
  /\ busy_toggle

\* the toggle clicked now, its client.status() returning fetch
ToggleNow(fetch) == _handle_toggle_connection(Begin("toggle"), fetch)

\* C35: with a client and no transition running, the toggle dispatches down
\* exactly when the snapshot it fetches is connected and up when it is not,
\* whatever the button showed; when the fetch fails it dispatches nothing,
\* shows the error and leaves the busy flag false
C35_ToggleDecidesFromSnapshot ==
  (client /\ ~busy_toggle) =>
    \A fetch \in Fetches :
      IF fetch.ok
      THEN /\ ToggleNow(fetch).last.submitted =
                << IF fetch.st.connected THEN "down" ELSE "up" >>
           /\ ToggleNow(fetch).busy_toggle
           /\ ToggleNow(fetch).last.errors = << >>
           /\ Cardinality(DOMAIN ToggleNow(fetch).workers) = Cardinality(DOMAIN workers) + 1
      ELSE /\ ToggleNow(fetch).last.submitted = << >>
           /\ ToggleNow(fetch).workers = workers
           /\ ToggleNow(fetch).last.errors =
                << "Nie mozna pobrac statusu: Blad pobierania statusu tailscale: " >>
           /\ ~ToggleNow(fetch).busy_toggle

C35_Witness ==
  /\ last.by = "toggle"
  /\ last.submitted = << "down" >>
  /\ ~toggle.connected
  /\ toggle.text = "Rozlaczanie..."
  /\ busy_toggle
  /\ \E id \in DOMAIN workers : workers[id].kind = "down" /\ ~workers[id].ran

\* the snapshot flags exactly the devices whose own data flags them
FlagsAsParsed(st) ==
  /\ Len(st.devices) = Len(ParsedDevices)
  /\ \A i \in 1..Len(st.devices) :
       st.devices[i].is_exit_node = ParsedDevices[i].is_exit_node

\* C37 (as claimed): a status marked Active: false gives a snapshot with no
\* active exit node and flags no device
C37_InactiveMeansNoActive ==
  (out.fn = "status" /\ MarkedInactive) =>
    /\ out.val.active_exit_node = << >>
    /\ FlagsAsParsed(out.val)

\* C37 (amended): a status marked Active: false flags no device, whatever
\* id it names, and the snapshot's active exit node is then the first device
\* that its own data flags as exit node, none if there is no such device
C37_InactiveFlagsNothing ==
  (out.fn = "status" /\ MarkedInactive) =>
    /\ FlagsAsParsed(out.val)
    /\ IsFirstFlagged(out.val)

C37_Witness ==
  /\ out.fn = "status"
  /\ raw.ExitNodeStatus = << [ Active |-> "false", ID |-> "peer1" ] >>
  /\ raw.Peer = << PeerExit(FALSE), PeerFlagged(FALSE) >>
  /\ out.val.active_exit_node = << >>
  /\ Len(out.val.devices) >= 2
  /\ \A i \in 1..Len(out.val.devices) : ~out.val.devices[i].is_exit_node

\* the worker id is kept only until the warning box that its callback
\* opened is closed
WaitsInBox(id) ==
  /\ workers[id].calls = 1
  /\ Pending(signals, id) = 0
  /\ Cardinality({ i \in 1..Len(boxes) : boxes[i].worker = << id >> }) = 1

\* C4: every worker has exactly one callback invoked exactly once: while
\* it exists, the callbacks invoked and the signals queued for it number
\* one once it has run and none before; a delivery is the worker's first
\* and last, after it the worker is gone or waits for its warning box to
\* be closed; and this holds for each of the workers in flight
C4_OneCallbackPerTask ==
  /\ \A id \in DOMAIN workers :
       /\ workers[id].calls + Pending(signals, id) = IF workers[id].ran THEN 1 ELSE 0
       /\ workers[id].calls = 1 => WaitsInBox(id)
  /\ \A s \in signals : s.worker \in DOMAIN workers
  /\ \A i \in 1..Len(boxes) :
       boxes[i].worker # << >> => boxes[i].worker[1] \in DOMAIN workers
  /\ last.delivered # << >> =>
       /\ last.delivered[1].calls = 1
       /\ \/ last.delivered[1].worker \notin DOMAIN workers
          \/ WaitsInBox(last.delivered[1].worker)

\* the callback of a connect has run while the signal of a lookup is
\* queued and the worker of an earlier command waits in its warning box
C4_Witness ==
  /\ last.delivered # << >>
  /\ last.delivered[1].kind = "up"
  /\ \E s \in signals : s.worker[1] = "ip" /\ workers[s.worker].calls = 0
  /\ \E id \in DOMAIN workers : id[1] = "down" /\ WaitsInBox(id)

\* C5: a task that raises leads to the error signal with a non-empty
\* message and never to the finished signal, whatever it raised; the
\* failure callback of a connect or disconnect command then ends the
\* transition with that message
C5_RaisedMeansFailure ==
  /\ \A s \in signals :
       s.raised # "none" => s.sig = "error" /\ s.msg # ""
  /\ \A s \in signals : s.sig = "error" => s.raised # "none"
  /\ last.delivered # << >> =>
       LET c == last.delivered[1] IN
       /\ c.raised # "none" <=> c.sig = "error"
       /\ c.sig = "error" =>
            /\ c.msg # ""
            /\ c.kind \in { "up", "down" } =>
                 /\ last.finish = << [ error_msg |-> c.msg, status_msg |-> None ] >>
                 /\ c.msg \in Range(last.errors)

C5_Witness ==
  /\ last.delivered # << >>
  /\ last.delivered[1].raised = "Exception"
  /\ last.delivered[1].kind = "up"
  /\ last.delivered[1].sig = "error"

\* C6: a set connection busy flag is eventually cleared, and so is a set
\* exit busy flag, when every worker runs to its end, every signal is
\* delivered and the poll timer keeps firing
BusyEnds == (busy_toggle ~> ~busy_toggle) /\ (exit_busy ~> ~exit_busy)

C6_Witness ==
  /\ busy_toggle
  /\ exit_busy
  /\ \E id \in DOMAIN workers : id[1] = "exit"

\* C7: at most one poll timer runs, it is the one _poll_timer names and it
\* runs exactly while the poller has a target; a call of _start_poll, a
\* session running or not, leaves one new timer running and none of those
\* that ran before it, and restarts the session's clock; and every tick is
\* a tick of the session that is current when it comes, and reads the
\* clock of that session
C7_OnePollSession ==
  /\ [] ( /\ Cardinality(DOMAIN timers) <= 1
          /\ DOMAIN timers \subseteq { poll_timer }
          /\ DOMAIN timers # {} <=> poll_target # << >> )
  /\ [][ last'.by = "start_poll" =>
           /\ DOMAIN timers' = { poll_timer' }
           /\ poll_timer' \notin DOMAIN timers
           /\ timers'[poll_timer'] = PollIntervalMs
           /\ poll_target' # << >>
           /\ since_poll_started' = 0
           /\ last'.tick = << >> /\ last'.finish = << >> ]_vars
  /\ [][ last'.tick # << >> =>
           /\ DOMAIN timers = { poll_timer }
           /\ timers[poll_timer] <= 0
           /\ last'.tick[1].target = poll_target
           /\ last'.tick[1].elapsed >= since_poll_started ]_vars

\* _start_poll was called while a session ran: the timer it left is the
\* second (a new timer gets the smallest id no running timer has, so the
\* first ran when the call came) and the first is gone
C7_Witness ==
  /\ last.by = "start_poll"
  /\ poll_timer = 2
  /\ DOMAIN timers = { 2 }
  /\ timers[2] = PollIntervalMs
  /\ poll_target = << TRUE >>
  /\ since_poll_started = 0
  /\ since_down_started > 0

\* the steps a user takes to connect or disconnect
UserSteps == { "toggle", "tray_connect", "tray_disconnect" }

\* C8: a transition sees the finish step at most once; the step that
\* finishes leaves no poll timer and no target, a tick that finishes
\* reports success or the timeout error, no tick comes without a session,
\* and a connect or disconnect command is submitted by a user's step only
C8_FinishOnceNoRetry ==
  /\ hist.finishes <= 1
  /\ Len(last.finish) <= 1
  /\ Finished =>
       /\ poll_timer = NoTimer
       /\ poll_target = << >>
       /\ DOMAIN timers = {}
       /\ ~busy_toggle
       /\ Ticked =>
            \/ /\ last.finish[1].error_msg = None
               /\ Truthy(last.finish[1].status_msg)
            \/ last.finish[1] = [ error_msg |-> MsgTimeout, status_msg |-> None ]
  /\ Ticked => hist.session /\ last.tick[1].target # << >>
  /\ (hist.session /\ poll_target = << >>) => hist.finishes = 1
  /\ \A i \in 1..Len(last.submitted) :
       last.submitted[i] \in { "up", "down" } => last.by \in UserSteps

\* a session started from the tray while a warning box was open has timed
\* out: its box is the second
C8_Witness ==
  /\ Ticked /\ Finished
  /\ last.finish[1].error_msg = MsgTimeout
  /\ hist.finishes = 1
  /\ poll_target = << >>
  /\ Len(boxes) = 2

\* the public-IP lookups in flight
IpWorkers == { id \in DOMAIN workers : workers[id].kind = "ip" }

\* the loop has just run the callback of a lookup
IpDelivered == last.delivered # << >> /\ last.delivered[1].kind = "ip"

\* fetch_public_ip(force) called now
FetchIpNow(force) == fetch_public_ip(Begin("fetch_public_ip"), force)

\* C38: at most one public-IP lookup is in flight and the pending flag is
\* set exactly while it is; a request made while the flag is set changes
\* nothing, forced or not, and one made while it is clear submits one
\* lookup carrying its force; the callback of a lookup, success or error,
\* leaves the flag clear, so the next request is accepted; and the forced
\* request of the refresh button is dropped while a lookup is in flight
\* and submits one forced lookup when none is
C38_OneLookupInFlight ==
  /\ [] ( /\ Cardinality(IpWorkers) <= 1
          /\ public_ip_pending <=> IpWorkers # {}
          /\ \A force \in BOOLEAN :
               IF public_ip_pending
               THEN FetchIpNow(force) = Begin("fetch_public_ip")
               ELSE /\ FetchIpNow(force).public_ip_pending
                    /\ FetchIpNow(force).last.submitted = << "ip" >>
                    /\ \E id \in DOMAIN FetchIpNow(force).workers :
                         /\ DOMAIN FetchIpNow(force).workers = DOMAIN workers \cup { id }
                         /\ id \notin DOMAIN workers
                         /\ FetchIpNow(force).workers[id].kind = "ip"
                         /\ FetchIpNow(force).workers[id].force = force
          /\ IpDelivered =>
               /\ last.delivered[1].sig \in { "finished", "error" }
               /\ ~public_ip_pending
               /\ \A force \in BOOLEAN : FetchIpNow(force).last.submitted = << "ip" >> )
  /\ [][ last'.by = "manual_refresh" =>
           IF public_ip_pending
           THEN /\ last'.submitted = << >>
                /\ workers' = workers /\ signals' = signals
                /\ public_ip_pending'
           ELSE /\ last'.submitted = << "ip" >>
                /\ public_ip_pending'
                /\ \E id \in DOMAIN workers' :
                     /\ DOMAIN workers' = DOMAIN workers \cup { id }
                     /\ id \notin DOMAIN workers
                     /\ workers'[id].kind = "ip"
                     /\ workers'[id].force ]_vars

\* the refresh button was clicked while a lookup was in flight: its forced
\* request was dropped
C38_Witness ==
  /\ last.by = "manual_refresh"
  /\ last.submitted = << >>
  /\ public_ip_pending
  /\ Cardinality(IpWorkers) = 1
  /\ \A id \in IpWorkers : ~workers[id].force /\ ~workers[id].ran

\* refresh_status() called now, its client.status() returning fetch
RefreshNow(fetch, pick) == refresh_status(Begin("refresh_status"), fetch, pick)

\* every value of the alias map of w is an entry, the entries are the data
\* of the list's items, and the active value is none or an entry
ListsAgree(w) ==
  /\ \A a \in DOMAIN w.exit_alias_map : w.exit_alias_map[a] \in w.exit_entries
  /\ w.exit_entries = Range(w.combo_items)
  /\ w.exit_active_value = None \/ w.exit_active_value \in w.exit_entries

\* the eligible devices of st that have a command value
Listed(st) ==
  { i \in 1..Len(st.exit_nodes) :
      Truthy(_preferred_exit_node_argument(st.exit_nodes[i])) }

\* the alias map and the entries of w hold what the eligible devices of st
\* give, and nothing else
FromSnapshotAlone(w, st) ==
  /\ w.exit_entries =
       { _preferred_exit_node_argument(st.exit_nodes[i]) : i \in Listed(st) }
  /\ DOMAIN w.exit_alias_map =
       UNION { _exit_aliases_for_device(<< st.exit_nodes[i] >>) : i \in Listed(st) }
  /\ \A a \in DOMAIN w.exit_alias_map :
       \E i \in Listed(st) :
         /\ a \in _exit_aliases_for_device(<< st.exit_nodes[i] >>)
         /\ w.exit_alias_map[a] = _preferred_exit_node_argument(st.exit_nodes[i])

\* C39: in every state the values of the alias map are entries of the list
\* and the active value is none or an entry; a step that refreshed from a
\* snapshot with an active exit node leaves the selection on the active
\* value if there is one; and a refresh made now from any snapshot leaves
\* lists that agree, the selection on the active value if there is one,
\* and an alias map and entries that the snapshot's eligible devices alone
\* account for, whatever the lists held before
C39_ListsRebuiltPerSnapshot ==
  /\ ListsAgree(Window)
  /\ (ActiveSeen /\ exit_active_value # None) =>
       currentData(Window) = exit_active_value
  /\ client =>
       \A fetch \in { f \in ExitFetches : f.ok } : \A pick \in Picks(fetch) :
         /\ ListsAgree(RefreshNow(fetch, pick))
         /\ RefreshNow(fetch, pick).exit_active_value # None =>
              currentData(RefreshNow(fetch, pick)) =
                RefreshNow(fetch, pick).exit_active_value
         /\ FromSnapshotAlone(RefreshNow(fetch, pick), fetch.st)

\* the refresh that follows an exit-node command has put the selection on
\* the active value, and a refresh from another snapshot would list two
\* devices and drop an alias held now
C39_Witness ==
  /\ last.delivered # << >>
  /\ last.delivered[1].kind = "exit"
  /\ ActiveSeen
  /\ exit_active_value # None
  /\ currentData(Window) = exit_active_value
  /\ \E fetch \in { f \in ExitFetches : f.ok } : \E pick \in Picks(fetch) :
       /\ Cardinality(RefreshNow(fetch, pick).exit_entries) = 2
       /\ DOMAIN exit_alias_map \ DOMAIN RefreshNow(fetch, pick).exit_alias_map # {}

====
